---- MODULE Spec2Model ----
(***************************************************************************)
(* Well detection and intensity tracking (well_analyzer.py) and the        *)
(* analysis worker of the GUI (tabs/analysis_tab.py, main.py).             *)
(***************************************************************************)
EXTENDS Integers, Sequences, FiniteSets

VARIABLES
    pc,              \* position of the running operation
    \* --- the source file and what OpenCV makes of it
    video,           \* the frames of the source, in order (grey images)
    contour_area,    \* cv2.contourArea of the blob at each well site
    is_image_mode,   \* AnalysisTab.is_image_mode: the source is a still image
    earlier_runs,    \* history: the outcomes of the runs of main() that ended before
    invocations,     \* the calls of track_well_intensities on the worker threads
    heap,            \* the list objects those calls fill, by identity
    \* --- the analysis tab and the results tab as the user drives them
    media_loaded,    \* AnalysisTab.media_path is set
    workers_running, \* the arguments of the worker threads that have not put yet,
                     \* where the run of a worker is not followed step by step
    started,         \* history: how many analyses start_analysis has started there
    controls_state,  \* the state set_controls_state last gave the results controls
    \* --- IntervalScheduler and its thread
    schedule,        \* IntervalScheduler.schedule: phases, repeat_count, infinite_repeat
    sched_pc,        \* position of the scheduler thread in run()
    cycle_num,       \* run(): cycle_num
    phase_index,     \* run(): phase_index, counted from 1
    tick_t,          \* run(): t, the seconds left of the phase
    stop_event,      \* IntervalScheduler._stop_event is set
    callback_log,    \* history: the callbacks invoked, each with the time of the call
    clock,           \* history: the seconds the thread has slept
    sched_error,     \* the exception run() has caught, or None
    callback_raised, \* history: a callback has raised
    log_at_stop,     \* history: the length of callback_log when stop() was called
    \* --- CameraHandler and its capture threads
    camera_status,      \* CameraHandler.status
    is_running_signal,  \* CameraHandler.is_running_signal is set
    camera_thread,      \* CameraHandler.thread: the number of a capture thread, or 0 for None
    capture_threads,    \* position of each capture thread started so far in _capture_loop
    camera_cap,         \* CameraHandler.cap: the thread whose capture it is, or 0 for None
    devices_open,       \* the threads whose capture is open and not released
    camera_frame,       \* CameraHandler.frame: the frame stored, or None
    read_raised,        \* history: the threads in which a read of a frame has raised
    stop_pc,            \* position of the caller in stop_stream
    stopped_since,      \* history: stop_stream has returned and start_stream was not
                        \* called since
    start_calls,        \* history: how many times start_stream was called
    \* --- CaptureTab during interval recording
    is_interval_recording,  \* CaptureTab.is_interval_recording
    recorder,           \* CaptureTab.recorder: a VideoRecorder, or NoRecorder for None
    recorders_made,     \* history: how many VideoRecorder objects were made
    recording,          \* the ids of the VideoRecorder objects whose _is_recording is True
    ui_done,            \* how many of the callbacks queued with after(0) the main loop has run
    ui_pc,              \* position of the main loop: idle, or in scheduler.join()
    \* --- the calibration value of the analysis tab
    cal_value_var,      \* AnalysisTab.cal_value_var: the text in the spinbox
    cal_spinbox_state,  \* state of cal_value_spinbox: readonly or normal
    cap_open,        \* a cv2.VideoCapture is held and not released
    cap_pos,         \* read position of the held capture
    source_io,       \* the source has been opened or read in this run
    faulted,         \* a read of this run has failed or raised
    read_failed,     \* a read returned ret = False before the end of the stream
    \* --- parameters
    threshold_value, \* brightness cut of the detector
    min_area,        \* area threshold of the detector
    metric_mode,     \* the metric of the run: "average" | "peak"
    sample_rate,     \* stride between sampled frames
    \* --- find_well_locations
    contours,        \* what cv2.findContours returned: bounding box and area each
    max_intensity_frame, \* the projection, or None
    well_rois,       \* list of (x, y, w, h), or None
    \* --- track_well_intensities
    pass_metric,     \* metric_mode argument of the running pass
    frame_count,     \* frames read by the running pass
    intensity_data,  \* list of series, one per well
    sampled_frames,  \* history: the frame numbers the running pass sampled
    pass_opened,     \* history: the capture of the running pass opened
    \* --- analyze_peaks
    peak_results,    \* list of peak records
    calls,           \* history: how often each stage was entered in this run
    stdout,          \* the error and outcome lines printed so far
    \* --- the analysis tab, its worker thread and the main window
    background_level,    \* AnalysisTab.background_level
    average_intensity_data, \* series of the 'average' pass of the orchestrator
    peak_intensity_data, \* series of the 'peak' pass of the orchestrator
    results_package, \* what run_full_analysis returned: no or one package
    results_queue,   \* AnalysisTab.results_queue
    delivered,       \* history: the packages handle_analysis_results was given
    shown_error,     \* the text of the error box the main window opened, or None
    results_data,    \* ResultsTab.results_data: no or one package
    selected_tab,    \* the tab the notebook of the main window shows
    status_label,    \* the text of the status line of the analysis tab
    ui_state         \* the state set_ui_state last gave the controls

tabVars == <<media_loaded, workers_running, started, controls_state>>
schedVars == <<schedule, sched_pc, cycle_num, phase_index, tick_t, stop_event, callback_log, clock,
               sched_error, callback_raised, log_at_stop>>
camVars == <<camera_status, is_running_signal, camera_thread, capture_threads, camera_cap,
             devices_open, camera_frame, read_raised, stop_pc, stopped_since, start_calls>>
intervalVars == <<is_interval_recording, recorder, recorders_made, recording, ui_done, ui_pc>>
calVars == <<cal_value_var, cal_spinbox_state>>
srcVars == <<video, contour_area, is_image_mode, earlier_runs, invocations, heap, tabVars,
             schedVars, camVars, intervalVars, calVars>>
capVars == <<cap_open, cap_pos, source_io, faulted, read_failed>>
parVars == <<threshold_value, min_area, metric_mode, sample_rate>>
findVars == <<contours, max_intensity_frame, well_rois>>
trackVars == <<pass_metric, frame_count, intensity_data, sampled_frames, pass_opened>>

viewVars == <<shown_error, results_data, selected_tab, status_label, ui_state>>
guiVars == <<background_level, average_intensity_data, peak_intensity_data, results_package,
             results_queue, delivered, viewVars>>
outVars == <<stdout, guiVars>>

vars == <<pc, srcVars, capVars, parVars, findVars, trackVars, peak_results, calls, outVars>>

\* ---------------------------------------------------------------- bounds
MaxLen == 2        \* longest series given to the peak extractor
MaxVal == 1        \* largest sample value of those series
MaxSeries == 2     \* most series in one list
MaxStride == 2     \* largest sample stride
MaxContours == 2   \* most contours in one detector input
MaxCoord == 1      \* largest x and y of a contour's bounding box
MaxArea == 2       \* largest contour area and min_area of a detector input
MaxFrames == 3     \* most frames in a source
MaxLevel == 6      \* brightest level of the well in the rise-then-fall video
MaxPhases == 2     \* most phases in a schedule
MaxDuration == 2   \* longest phase, in seconds
MaxRepeat == 1     \* largest repeat_count of a schedule
MaxCycles == 3     \* cycles after which a schedule that repeats forever is left alone
MaxStarts == 3     \* most calls of start_stream
ImgW == 4          \* frame width in pixels
ImgH == 2          \* frame height in pixels

Metrics == {"average", "peak"}

\* None where a string is expected, where a list is expected (no list holds
\* the empty tuple) and where an image is expected
None == "None"
NoneList == <<<<>>>>
NoFrame == <<>>

NoCalls == [find |-> 0, track |-> 0, peaks |-> 0]

\* the worker threads
Workers == {"worker_a", "worker_b"}

\* a worker thread that has not called
IdleCall ==
    [pc |-> "idle", well_rois |-> <<>>, metric_mode |-> "average", sample_rate |-> 1,
     opened |-> FALSE, cap_pos |-> 0, frame_count |-> 0, intensity_data |-> "worker_a"]

NoInvocations ==
    /\ invocations = [w \in Workers |-> IdleCall]
    /\ heap = [w \in Workers |-> <<>>]

\* camera_handler.py lines 24-27
STATUS_STOPPED == "STOPPED"
STATUS_INITIALIZING == "INITIALIZING"
STATUS_RUNNING == "RUNNING"
STATUS_ERROR == "ERROR"

\* camera_handler.py lines 29-36: a handler just made
CameraAtRest ==
    /\ camera_status = STATUS_STOPPED /\ is_running_signal = FALSE
    /\ camera_thread = 0 /\ capture_threads = <<>>
    /\ camera_cap = 0 /\ devices_open = {}
    /\ camera_frame = None /\ read_raised = {}
    /\ stop_pc = "idle" /\ stopped_since = FALSE /\ start_calls = 0

\* capture_tab.py line 260: no recorder
NoRecorder == [id |-> 0, fps |-> 0]

\* capture_tab.py lines 254-272: a capture tab just made
IntervalAtRest ==
    /\ is_interval_recording = FALSE /\ recorder = NoRecorder /\ recorders_made = 0
    /\ recording = {} /\ ui_done = 0 /\ ui_pc = "idle"

\* analysis_tab.py lines 26, 85: the spinbox shows "0" and is read-only
CalibrationAtRest == cal_value_var = "0" /\ cal_spinbox_state = "readonly"

\* no scheduler made
SchedulerAtRest ==
    /\ schedule = [phases |-> <<>>, repeat_count |-> 0]
    /\ sched_pc = "done" /\ cycle_num = 0 /\ phase_index = 0 /\ tick_t = 0
    /\ stop_event = FALSE /\ callback_log = <<>> /\ clock = 0
    /\ sched_error = None /\ callback_raised = FALSE /\ log_at_stop = 0

\* no worker thread of the analysis tab, nothing in the results tab
TabsAtRest ==
    /\ media_loaded = TRUE /\ workers_running = <<>> /\ started = 0
    /\ controls_state = "disabled"

\* no source, no capture held, no worker
SourceAtRestButScheduler ==
    /\ video = <<>> /\ contour_area = <<>> /\ is_image_mode = FALSE /\ earlier_runs = <<>>
    /\ NoInvocations /\ TabsAtRest
    /\ cap_open = FALSE /\ cap_pos = 0 /\ source_io = FALSE
    /\ faulted = FALSE /\ read_failed = FALSE

\* no source, no capture held
SourceAtRest ==
    /\ video = <<>> /\ contour_area = <<>> /\ is_image_mode = FALSE /\ earlier_runs = <<>> /\ NoInvocations /\ TabsAtRest /\ SchedulerAtRest /\ CameraAtRest /\ IntervalAtRest /\ CalibrationAtRest
    /\ cap_open = FALSE /\ cap_pos = 0 /\ source_io = FALSE
    /\ faulted = FALSE /\ read_failed = FALSE

FindAtRest == contours = <<>> /\ max_intensity_frame = NoFrame /\ well_rois = <<>>

\* analysis_tab.py line 145: the status line once a file is loaded
MEDIA_LOADED == "Media loaded. Calibrate background, then run analysis."

OutAtRest ==
    /\ stdout = <<>>
    /\ background_level = 0
    /\ average_intensity_data = <<>> /\ peak_intensity_data = <<>>
    /\ results_package = <<>> /\ results_queue = <<>> /\ delivered = <<>>
    /\ shown_error = None /\ results_data = <<>>
    /\ selected_tab = "Analysis"
    /\ status_label = MEDIA_LOADED
    /\ ui_state = "normal"

TrackAtRest ==
    /\ pass_metric = None /\ frame_count = 0
    /\ intensity_data = <<>> /\ sampled_frames = <<>> /\ pass_opened = FALSE

RECURSIVE SeqsUpTo(_, _)
SeqsUpTo(S, n) ==
    IF n = 0 THEN {<<>>}
    ELSE LET shorter == SeqsUpTo(S, n - 1)
         IN  shorter \cup {Append(s, x) : s \in {t \in shorter : Len(t) = n - 1}, x \in S}

\* ------------------------------------------------------- analyze_peaks
\* np.max over a non-empty array
RECURSIVE np_max_from(_, _, _)
np_max_from(s, i, best) ==
    IF i > Len(s) THEN best
    ELSE np_max_from(s, i + 1, IF s[i] > best THEN s[i] ELSE best)

np_max(s) == np_max_from(s, 2, s[1])

\* np.argmax with the comparison turned round: the last index of the maximum
RECURSIVE np_argmax_last_from(_, _, _)
np_argmax_last_from(s, i, best) ==
    IF i > Len(s) THEN best
    ELSE np_argmax_last_from(s, i + 1, IF s[i] >= s[best] THEN i ELSE best)

np_argmax_last(s) == np_argmax_last_from(s, 2, 1) - 1

\* np.argmax: zero-based index of the first occurrence of the maximum
RECURSIVE np_argmax_from(_, _, _)
np_argmax_from(s, i, best) ==
    IF i > Len(s) THEN best
    ELSE np_argmax_from(s, i + 1, IF s[i] > s[best] THEN i ELSE best)

np_argmax(s) == np_argmax_from(s, 2, 1) - 1

\* the loop of analyze_peaks from list position i (1-based) on
RECURSIVE analyze_peaks_from(_, _, _, _)
analyze_peaks_from(data, mode, rate, i) ==
    IF i > Len(data) THEN <<>>
    ELSE IF data[i] = <<>> THEN analyze_peaks_from(data, mode, rate, i + 1)
    ELSE <<[well_id     |-> i - 1,
            intensity   |-> np_max(data[i]),
            frame       |-> np_argmax(data[i]) * rate,
            metric_mode |-> mode]>>
         \o analyze_peaks_from(data, mode, rate, i + 1)

\* the loop with the results numbered by their own position
RECURSIVE analyze_peaks_renumbered_from(_, _, _, _, _)
analyze_peaks_renumbered_from(data, mode, rate, i, n) ==
    IF i > Len(data) THEN <<>>
    ELSE IF data[i] = <<>> THEN analyze_peaks_renumbered_from(data, mode, rate, i + 1, n)
    ELSE <<[well_id     |-> n,
            intensity   |-> np_max(data[i]),
            frame       |-> np_argmax(data[i]) * rate,
            metric_mode |-> mode]>>
         \o analyze_peaks_renumbered_from(data, mode, rate, i + 1, n + 1)

analyze_peaks_renumbered(data, mode, rate) ==
    analyze_peaks_renumbered_from(data, mode, rate, 1, 0)

analyze_peaks(data, mode, rate) == analyze_peaks_from(data, mode, rate, 1)

\* ------------------------------------------- the peak extractor on its own
InitPeaks ==
    /\ pc = "peaks_in"
    /\ SourceAtRest /\ FindAtRest
    /\ threshold_value = 0 /\ min_area = 0
    /\ pass_metric = None /\ frame_count = 0 /\ sampled_frames = <<>> /\ pass_opened = FALSE
    /\ calls = NoCalls /\ OutAtRest
    /\ intensity_data \in SeqsUpTo(SeqsUpTo(0..MaxVal, MaxLen), MaxSeries)
    /\ sample_rate \in 1..MaxStride
    /\ metric_mode \in Metrics
    /\ peak_results = <<>>

ApplyAnalyzePeaks ==
    /\ pc = "peaks_in"
    /\ peak_results' = analyze_peaks(intensity_data, metric_mode, sample_rate)
    /\ pc' = "peaks_out"
    /\ UNCHANGED <<srcVars, capVars, parVars, findVars, trackVars, calls, outVars>>

NextPeaks == ApplyAnalyzePeaks

SpecPeaks == InitPeaks /\ [][NextPeaks]_vars

\* C1: for every non-empty series the reported peak value is the maximum of
\* the series and the reported frame is the stride times the smallest sample
\* index at which that maximum occurs.
C1_PeakIsFirstMaximum ==
    pc = "peaks_out" =>
        \A i \in 1..Len(intensity_data) :
            intensity_data[i] # <<>> =>
                \E j \in 1..Len(peak_results) :
                    LET r == peak_results[j]
                        s == intensity_data[i]
                    IN  /\ r.well_id = i - 1
                        /\ \A k \in 1..Len(s) : s[k] <= r.intensity
                        /\ \E k \in 1..Len(s) :
                              /\ s[k] = r.intensity
                              /\ \A m \in 1..(k - 1) : s[m] < r.intensity
                              /\ r.frame = sample_rate * (k - 1)

\* a series whose maximum occurs twice has been reduced with a stride above 1
C1_Witness ==
    /\ pc = "peaks_out"
    /\ sample_rate > 1
    /\ \E i \in 1..Len(intensity_data) :
          LET s == intensity_data[i]
          IN  /\ Len(s) >= 2
              /\ s[1] < s[2]
              /\ \E j \in 1..Len(peak_results) :
                    /\ peak_results[j].well_id = i - 1
                    /\ peak_results[j].frame = sample_rate

\* ------------------------------------------- find_well_locations, lines 107-119
\* cv2.boundingRect of a contour
boundingRect(c) == <<c.x, c.y, c.w, c.h>>

\* the area test of the detector's loop
passes_area_filter(c, minarea) == c.area > minarea

\* the loop over the contours from position i on
RECURSIVE filter_contours_from(_, _, _)
filter_contours_from(cs, minarea, i) ==
    IF i > Len(cs) THEN <<>>
    ELSE (IF passes_area_filter(cs[i], minarea) THEN <<boundingRect(cs[i])>> ELSE <<>>)
         \o filter_contours_from(cs, minarea, i + 1)

\* a sort key with the coordinates swapped: left-to-right first
roi_sort_key_xy(r) == <<r[1], r[2]>>

\* key=lambda r: (r[1], r[0])
roi_sort_key(r) == <<r[2], r[1]>>

\* Python's order on pairs
tuple_less(a, b) == a[1] < b[1] \/ (a[1] = b[1] /\ a[2] < b[2])

\* list.sort is stable: r goes behind every element whose key is not greater
RECURSIVE insert_by_key(_, _)
insert_by_key(sorted, r) ==
    IF sorted = <<>> THEN <<r>>
    ELSE IF tuple_less(roi_sort_key(r), roi_sort_key(Head(sorted)))
         THEN <<r>> \o sorted
         ELSE <<Head(sorted)>> \o insert_by_key(Tail(sorted), r)

RECURSIVE sort_rois_from(_, _, _)
sort_rois_from(rois, i, sorted) ==
    IF i > Len(rois) THEN sorted
    ELSE sort_rois_from(rois, i + 1, insert_by_key(sorted, rois[i]))

\* the list left in the order the contours came in
sort_rois_as_found(rois) == rois

\* line 116: rois.sort(key=lambda r: (r[1], r[0]))
sort_rois(rois) == sort_rois_from(rois, 1, <<>>)

\* the ROI list find_well_locations returns for the contours found
rois_of_contours(cs, minarea) == sort_rois(filter_contours_from(cs, minarea, 1))

\* ------------------------------------------- the detector's list on its own
\* a rectangular blob of w x h pixels has the contour area (w-1)*(h-1)
ContourSet ==
    {[x |-> x, y |-> y, w |-> a + 1, h |-> 2, area |-> a] :
        x \in 0..MaxCoord, y \in 0..MaxCoord, a \in 0..MaxArea}

InitDetect ==
    /\ pc = "detect_in"
    /\ contours \in SeqsUpTo(ContourSet, MaxContours)
    /\ min_area \in 1..MaxArea
    /\ well_rois = <<>> /\ max_intensity_frame = NoFrame
    /\ SourceAtRest /\ TrackAtRest
    /\ threshold_value = 0 /\ sample_rate = 1 /\ metric_mode = "average"
    /\ peak_results = <<>>
    /\ calls = NoCalls /\ OutAtRest

ApplyFilterAndSort ==
    /\ pc = "detect_in"
    /\ well_rois' = rois_of_contours(contours, min_area)
    /\ pc' = "detect_out"
    /\ UNCHANGED <<contours, max_intensity_frame, srcVars, capVars, parVars, trackVars,
                   peak_results, calls, outVars>>

NextDetect == ApplyFilterAndSort

SpecDetect == InitDetect /\ [][NextDetect]_vars

\* C3: in every ROI list the detector returns, for positions i < j either
\* roi[i].y < roi[j].y, or the y are equal and roi[i].x <= roi[j].x.
C3_RoisSortedByYThenX ==
    pc = "detect_out" =>
        \A i, j \in 1..Len(well_rois) :
            i < j =>
                \/ well_rois[i][2] < well_rois[j][2]
                \/ (well_rois[i][2] = well_rois[j][2] /\ well_rois[i][1] <= well_rois[j][1])

\* two kept contours arrived in the opposite order: lower one first
C3_Witness ==
    /\ pc = "detect_out"
    /\ Len(contours) = 2
    /\ Len(well_rois) = 2
    /\ contours[1].y > contours[2].y
    /\ contours[1].x < contours[2].x
    /\ well_rois[1] = boundingRect(contours[2])

\* how often rectangle r occurs in list rois
Occurrences(rois, r) == Cardinality({i \in 1..Len(rois) : rois[i] = r})

\* C4: the area filter keeps exactly the candidates whose area is >= min_area:
\* the returned list holds the bounding boxes of those and of no others.
C4_KeepsExactlyAreaAtLeastMin ==
    pc = "detect_out" =>
        \A c \in ContourSet :
            Occurrences(well_rois, boundingRect(c)) =
                Cardinality({i \in 1..Len(contours) :
                    boundingRect(contours[i]) = boundingRect(c) /\ contours[i].area >= min_area})

\* ------------------------------------------------------------ the source
\* brightest glow of the synthetic test video
PEAK_BRIGHTNESS == 255

Pixels == (0..(ImgW - 1)) \X (0..(ImgH - 1))

\* two wells: A at the top left with a half-bright pixel to its right, B at
\* the bottom right
SiteA == <<0, 0>>
TailA == <<1, 0>>
SiteB == <<ImgW - 1, ImgH - 1>>
Sites == {SiteA, SiteB}

\* the grey image of a frame in which A glows at level a and B at level b
Glow(a, b) ==
    [p \in Pixels |->
        IF p = SiteA THEN a
        ELSE IF p = TailA THEN a \div 2
        ELSE IF p = SiteB THEN b
        ELSE 0]

FrameSet == {Glow(a, b) : a \in {0, PEAK_BRIGHTNESS}, b \in {0, 200}}

Videos == SeqsUpTo(FrameSet, MaxFrames)

\* ------------------------------------------------ track_well_intensities
RECURSIVE Lcm1To(_, _)
Lcm1To(n, acc) ==
    IF n = 0 THEN acc
    ELSE Lcm1To(n - 1, CHOOSE m \in {acc * k : k \in 1..n} :
                           m % n = 0 /\ \A k \in 1..n : (acc * k) % n = 0 => m <= acc * k)

\* intensities are kept in units of 1/MeanScale, so that every mean over a
\* region of the frame is a whole number
MeanScale == Lcm1To(ImgW * ImgH, 1)

\* gray_frame[y:y+h, x:x+w]: the pixels of the frame inside the rectangle
well_region(roi) ==
    {p \in Pixels : /\ roi[1] <= p[1] /\ p[1] < roi[1] + roi[3]
                    /\ roi[2] <= p[2] /\ p[2] < roi[2] + roi[4]}

RECURSIVE SumOver(_, _)
SumOver(img, R) ==
    IF R = {} THEN 0
    ELSE LET p == CHOOSE q \in R : TRUE IN img[p] + SumOver(img, R \ {p})

\* np.mean(well_region)
region_mean(img, R) == SumOver(img, R) * (MeanScale \div Cardinality(R))

\* np.max(well_region)
region_max(img, R) == MeanScale * (CHOOSE v \in {img[p] : p \in R} : \A q \in R : img[q] <= v)

\* the sample of one well in one frame with the metric left out of account
roi_intensity_mean_only(img, roi, mode) ==
    LET R == well_region(roi)
    IN  IF R = {} THEN 0 ELSE region_mean(img, R)

\* lines 153-160: the sample of one well in one frame
roi_intensity(img, roi, mode) ==
    LET R == well_region(roi)
    IN  IF R = {} THEN 0
        ELSE IF mode = "average" THEN region_mean(img, R)
        ELSE IF mode = "peak" THEN region_max(img, R)
        ELSE region_mean(img, R)

\* Python's a % b for a >= 0 and b # 0
py_mod(a, b) == IF b > 0 THEN a % b ELSE 0 - ((0 - a) % (0 - b))

\* the stride test one frame late: frames s-1, 2s-1, ... are taken
is_sampled_off_by_one(count, rate) == py_mod(count + 1, rate) = 0

\* line 135: what the pass prints when the capture does not open
CANNOT_REOPEN == "Error: Could not reopen video file for tracking."

\* line 147: frame_count % sample_rate == 0
is_sampled(count, rate) == py_mod(count, rate) = 0

\* lines 133-139: the capture opens
TrackOpen ==
    /\ pc = "track_open"
    /\ calls' = [calls EXCEPT !.track = @ + 1]
    /\ cap_open' = TRUE /\ cap_pos' = 0 /\ source_io' = TRUE
    /\ intensity_data' = [i \in 1..Len(well_rois) |-> <<>>]
    /\ frame_count' = 0
    /\ sampled_frames' = <<>>
    /\ pass_opened' = TRUE
    /\ pc' = "track_read"
    /\ UNCHANGED <<srcVars, faulted, read_failed, parVars, findVars, pass_metric, peak_results, outVars>>

\* lines 133-136: the capture does not open: return []
TrackOpenFails ==
    /\ pc = "track_open"
    /\ calls' = [calls EXCEPT !.track = @ + 1]
    /\ source_io' = TRUE
    /\ intensity_data' = <<>>
    /\ frame_count' = 0
    /\ sampled_frames' = <<>>
    /\ pass_opened' = FALSE
    /\ stdout' = Append(stdout, CANNOT_REOPEN)
    /\ pc' = "track_returned"
    /\ UNCHANGED <<srcVars, cap_open, cap_pos, faulted, read_failed, parVars, findVars,
                   pass_metric, peak_results, guiVars>>

\* the sample of one well with a well of no pixels passed over
append_sample_unless_empty(series, img, roi, mode) ==
    IF well_region(roi) = {} THEN series ELSE Append(series, roi_intensity(img, roi, mode))

\* lines 153-162: the sample of one well goes to the end of its series
append_sample(series, img, roi, mode) == Append(series, roi_intensity(img, roi, mode))

\* lines 142-166: one frame is read and, when the stride selects it, sampled
TrackReadFrame ==
    /\ pc = "track_read"
    /\ cap_pos < Len(video)
    /\ sample_rate # 0
    /\ LET frame == video[cap_pos + 1]
       IN  IF is_sampled(frame_count, sample_rate)
           THEN /\ intensity_data' =
                      [i \in 1..Len(well_rois) |->
                          append_sample(intensity_data[i], frame, well_rois[i], pass_metric)]
                /\ sampled_frames' = Append(sampled_frames, cap_pos)
           ELSE UNCHANGED <<intensity_data, sampled_frames>>
    /\ frame_count' = frame_count + 1
    /\ cap_pos' = cap_pos + 1
    /\ UNCHANGED <<pc, srcVars, cap_open, source_io, faulted, read_failed, parVars, findVars,
                   pass_metric, pass_opened, peak_results, calls, outVars>>

\* lines 142-144, 168-170: the stream is at its end: break, release, return
TrackReadEnd ==
    /\ pc = "track_read"
    /\ cap_pos = Len(video)
    /\ cap_open' = FALSE
    /\ pc' = "track_returned"
    /\ UNCHANGED <<srcVars, cap_pos, source_io, faulted, read_failed, parVars, findVars,
                   trackVars, peak_results, calls, outVars>>

\* lines 142-144, 168-170: a frame before the end cannot be read; ret is False
\* as at the end of the stream
TrackReadFails ==
    /\ pc = "track_read"
    /\ cap_pos < Len(video)
    /\ ~faulted
    /\ faulted' = TRUE /\ read_failed' = TRUE
    /\ cap_open' = FALSE
    /\ pc' = "track_returned"
    /\ UNCHANGED <<srcVars, cap_pos, source_io, parVars, findVars, trackVars,
                   peak_results, calls, outVars>>

\* lines 147-162: processing the frame raises (cv2.error of cvtColor, or
\* ZeroDivisionError of the stride test); nothing in the function catches it
TrackReadRaises ==
    /\ pc = "track_read"
    /\ cap_pos < Len(video)
    /\ ~faulted \/ sample_rate = 0
    /\ faulted' = TRUE
    /\ pc' = "raised"
    /\ UNCHANGED <<srcVars, cap_open, cap_pos, source_io, read_failed, parVars, findVars,
                   trackVars, peak_results, calls, outVars>>

\* ---------------------------------------------- the sampler on its own
\* well A, well B, and a rectangle beyond the right edge of the frame
RoiSet == {<<0, 0, 2, 1>>, <<ImgW - 1, ImgH - 1, 1, 1>>, <<ImgW, 0, 1, 1>>}

InitTrack ==
    /\ pc = "track_open"
    /\ video \in Videos
    /\ contour_area = <<>> /\ is_image_mode = FALSE /\ earlier_runs = <<>> /\ NoInvocations /\ TabsAtRest /\ SchedulerAtRest /\ CameraAtRest /\ IntervalAtRest /\ CalibrationAtRest
    /\ cap_open = FALSE /\ cap_pos = 0 /\ source_io = FALSE
    /\ faulted = FALSE /\ read_failed = FALSE
    /\ threshold_value = 0 /\ min_area = 0
    /\ metric_mode \in Metrics
    /\ sample_rate \in 1..MaxStride
    /\ contours = <<>> /\ max_intensity_frame = NoFrame
    /\ well_rois \in SeqsUpTo(RoiSet, MaxContours)
    /\ pass_metric = metric_mode
    /\ frame_count = 0 /\ intensity_data = <<>> /\ sampled_frames = <<>>
    /\ pass_opened = FALSE
    /\ peak_results = <<>>
    /\ calls = NoCalls /\ OutAtRest

NextTrack ==
    \/ TrackOpen
    \/ TrackOpenFails
    \/ TrackReadFrame
    \/ TrackReadEnd
    \/ TrackReadFails
    \/ TrackReadRaises

SpecTrack == InitTrack /\ [][NextTrack]_vars

CeilDiv(n, d) == (n + d - 1) \div d

\* C2: the sampler takes exactly the frames whose number is 0 mod the stride,
\* in order from frame 0: after f frames every series has ceil(f/s) samples,
\* the k-th taken from frame k*s, and a pass over all N frames of the video
\* leaves ceil(N/s) samples in every series.
C2_SamplesEveryStrideFrame ==
    pass_opened =>
        /\ frame_count = cap_pos
        /\ Len(sampled_frames) = CeilDiv(frame_count, sample_rate)
        /\ \A k \in 1..Len(sampled_frames) : sampled_frames[k] = (k - 1) * sample_rate
        /\ Len(intensity_data) = Len(well_rois)
        /\ \A i \in 1..Len(intensity_data) :
              /\ Len(intensity_data[i]) = CeilDiv(frame_count, sample_rate)
              /\ \A k \in 1..Len(intensity_data[i]) :
                    intensity_data[i][k] =
                        roi_intensity(video[(k - 1) * sample_rate + 1], well_rois[i], pass_metric)
        /\ (pc = "track_returned" /\ ~read_failed) =>
              /\ frame_count = Len(video)
              /\ \A i \in 1..Len(intensity_data) :
                    Len(intensity_data[i]) = CeilDiv(Len(video), sample_rate)

\* a pass over three frames with stride 2 has returned two samples per well
C2_Witness ==
    /\ pc = "track_returned"
    /\ pass_opened
    /\ ~read_failed
    /\ Len(video) = 3
    /\ sample_rate = 2
    /\ Len(well_rois) = 2
    /\ sampled_frames = <<0, 2>>
    /\ \A i \in 1..2 : Len(intensity_data[i]) = 2

\* -------------------------------------- find_well_locations, lines 73-106
\* the configuration of the script
WELL_DETECTION_THRESHOLD == 120
MIN_WELL_AREA == 100
SAMPLE_RATE == 1

\* np.zeros((frame_height, frame_width))
zeros == [p \in Pixels |-> 0]

\* np.maximum(a, b)
np_maximum(a, b) == [p \in Pixels |-> IF a[p] >= b[p] THEN a[p] ELSE b[p]]

\* cv2.threshold(..., THRESH_BINARY): the pixels above the cut
cv2_threshold(img, cut) == {p \in Pixels : img[p] > cut}

Abs(n) == IF n < 0 THEN 0 - n ELSE n

\* the 8-connected blob of foreground F that holds the pixels C
RECURSIVE blob_of(_, _)
blob_of(C, F) ==
    LET more == {q \in F \ C : \E p \in C : Abs(p[1] - q[1]) <= 1 /\ Abs(p[2] - q[2]) <= 1}
    IN  IF more = {} THEN C ELSE blob_of(C \cup more, F)

SetMin(S) == CHOOSE v \in S : \A w \in S : v <= w
SetMax(S) == CHOOSE v \in S : \A w \in S : w <= v

\* cv2.contourArea of a blob, as the source determines it
blob_area(C, areas) ==
    IF SiteA \in C THEN areas[SiteA] ELSE IF SiteB \in C THEN areas[SiteB] ELSE 0

\* the outer contour of a blob: cv2.boundingRect and cv2.contourArea of it
contour_of(C, areas) ==
    LET xs == {p[1] : p \in C}
        ys == {p[2] : p \in C}
    IN  [x |-> SetMin(xs), y |-> SetMin(ys),
         w |-> SetMax(xs) - SetMin(xs) + 1, h |-> SetMax(ys) - SetMin(ys) + 1,
         area |-> blob_area(C, areas)]

\* cv2.findContours(thresh, RETR_EXTERNAL, ...): one contour per blob
found_contours(F, areas) == {contour_of(blob_of({p}, F), areas) : p \in F}

\* the orders in which a set of contours can come back
Orderings(S) ==
    {cs \in SeqsUpTo(S, Cardinality(S)) :
        Len(cs) = Cardinality(S) /\ \A i, j \in 1..Len(cs) : i # j => cs[i] # cs[j]}

\* lines 98-119: release the capture, threshold the projection, find, filter
\* and sort the contours, return
FindFinish(projection) ==
    /\ cap_open' = FALSE
    /\ \E cs \in Orderings(found_contours(cv2_threshold(projection, threshold_value),
                                          contour_area)) :
          well_rois' = rois_of_contours(cs, min_area)
    /\ pc' = "find_returned"

\* line 76: what the pass prints when the capture does not open
CANNOT_OPEN == "Error: Could not open video file"

\* lines 74-84: the capture opens
FindOpen ==
    /\ pc = "find_open"
    /\ calls' = [calls EXCEPT !.find = @ + 1]
    /\ cap_open' = TRUE /\ cap_pos' = 0 /\ source_io' = TRUE
    /\ max_intensity_frame' = zeros
    /\ pc' = "find_read"
    /\ UNCHANGED <<srcVars, faulted, read_failed, parVars, contours, well_rois, trackVars,
                   peak_results, outVars>>

\* lines 74-77: the capture does not open: return None, None
FindOpenFails ==
    /\ pc = "find_open"
    /\ calls' = [calls EXCEPT !.find = @ + 1]
    /\ source_io' = TRUE
    /\ stdout' = Append(stdout, CANNOT_OPEN)
    /\ well_rois' = NoneList /\ max_intensity_frame' = NoFrame
    /\ pc' = "find_returned"
    /\ UNCHANGED <<srcVars, cap_open, cap_pos, faulted, read_failed, parVars, contours,
                   trackVars, peak_results, guiVars>>

\* lines 88-96: one frame is read and folded into the projection
FindReadFrame ==
    /\ pc = "find_read"
    /\ cap_pos < Len(video)
    /\ max_intensity_frame' = np_maximum(max_intensity_frame, video[cap_pos + 1])
    /\ cap_pos' = cap_pos + 1
    /\ UNCHANGED <<pc, srcVars, cap_open, source_io, faulted, read_failed, parVars, contours,
                   well_rois, trackVars, peak_results, calls, outVars>>

\* lines 88-90, 98-119: the stream is at its end
FindReadEnd ==
    /\ pc = "find_read"
    /\ cap_pos = Len(video)
    /\ FindFinish(max_intensity_frame)
    /\ UNCHANGED <<srcVars, cap_pos, source_io, faulted, read_failed, parVars, contours,
                   max_intensity_frame, trackVars, peak_results, calls, outVars>>

\* lines 88-90, 98-119: a frame before the end cannot be read; ret is False
\* as at the end of the stream
FindReadFails ==
    /\ pc = "find_read"
    /\ cap_pos < Len(video)
    /\ ~faulted
    /\ faulted' = TRUE /\ read_failed' = TRUE
    /\ FindFinish(max_intensity_frame)
    /\ UNCHANGED <<srcVars, cap_pos, source_io, parVars, contours, max_intensity_frame,
                   trackVars, peak_results, calls, outVars>>

\* lines 93-96: processing the frame raises; nothing in the function catches it
FindReadRaises ==
    /\ pc = "find_read"
    /\ cap_pos < Len(video)
    /\ ~faulted
    /\ faulted' = TRUE
    /\ pc' = "raised"
    /\ UNCHANGED <<srcVars, cap_open, cap_pos, source_io, read_failed, parVars, findVars,
                   trackVars, peak_results, calls, outVars>>

\* ------------------------------------------------- analyze_peaks, called
AnalyzePeaks ==
    /\ pc = "peaks_call"
    /\ calls' = [calls EXCEPT !.peaks = @ + 1]
    /\ peak_results' = analyze_peaks(intensity_data, pass_metric, sample_rate)
    /\ pc' = "peaks_returned"
    /\ UNCHANGED <<srcVars, capVars, parVars, findVars, trackVars, outVars>>

\* ------------------------------------------------- main, lines 281-315
\* not v, for v a list or None, with only None counted as false
not_none_only(v) == v = NoneList

\* not v, for v a list or None
not_(v) == v = NoneList \/ v = <<>>

NO_WELLS == "No wells were detected"
COMPLETE == "Analysis Complete"

AreaVals == {MIN_WELL_AREA, MIN_WELL_AREA + 1}

InitMain ==
    /\ pc = "main_start"
    /\ video \in Videos
    /\ contour_area \in [Sites -> AreaVals] /\ is_image_mode = FALSE /\ earlier_runs = <<>> /\ NoInvocations /\ TabsAtRest /\ SchedulerAtRest /\ CameraAtRest /\ IntervalAtRest /\ CalibrationAtRest
    /\ cap_open = FALSE /\ cap_pos = 0 /\ source_io = FALSE
    /\ faulted = FALSE /\ read_failed = FALSE
    /\ threshold_value = WELL_DETECTION_THRESHOLD
    /\ min_area = MIN_WELL_AREA
    /\ metric_mode = "average"
    /\ sample_rate = SAMPLE_RATE
    /\ contours = <<>> /\ max_intensity_frame = NoFrame /\ well_rois = NoneList
    /\ TrackAtRest
    /\ peak_results = <<>>
    /\ calls = NoCalls /\ OutAtRest

\* lines 284-290: call find_well_locations
MainStart ==
    /\ pc = "main_start"
    /\ pc' = "find_open"
    /\ UNCHANGED <<srcVars, capVars, parVars, findVars, trackVars, peak_results, calls, outVars>>

\* lines 292-294 with the return left out: the message is printed and the
\* run goes on
MainNoWells_without_return ==
    /\ pc = "find_returned"
    /\ not_(well_rois)
    /\ stdout' = Append(stdout, NO_WELLS)
    /\ pass_metric' = "average"
    /\ pc' = "track_open"
    /\ UNCHANGED <<srcVars, capVars, parVars, findVars, frame_count, intensity_data,
                   sampled_frames, pass_opened, peak_results, calls, guiVars>>

\* lines 292-294: nothing to analyse
MainNoWells ==
    /\ pc = "find_returned"
    /\ not_(well_rois)
    /\ stdout' = Append(stdout, NO_WELLS)
    /\ pc' = "main_returned"
    /\ UNCHANGED <<srcVars, capVars, parVars, findVars, trackVars, peak_results, calls, guiVars>>

\* lines 292, 298: call track_well_intensities(..., 'average', SAMPLE_RATE)
MainTrack ==
    /\ pc = "find_returned"
    /\ ~not_(well_rois)
    /\ pass_metric' = "average"
    /\ pc' = "track_open"
    /\ UNCHANGED <<srcVars, capVars, parVars, findVars, frame_count, intensity_data,
                   sampled_frames, pass_opened, peak_results, calls, outVars>>

\* line 302: call analyze_peaks(intensity_data, 'average', SAMPLE_RATE)
MainPeaks ==
    /\ pc = "track_returned"
    /\ pc' = "peaks_call"
    /\ UNCHANGED <<srcVars, capVars, parVars, findVars, trackVars, peak_results, calls, outVars>>

\* lines 304-315: print the report, write the plot and the images
MainReport ==
    /\ pc = "peaks_returned"
    /\ source_io' = TRUE
    /\ stdout' = Append(stdout, COMPLETE)
    /\ pc' = "main_returned"
    /\ UNCHANGED <<srcVars, cap_open, cap_pos, faulted, read_failed, parVars, findVars,
                   trackVars, peak_results, calls, guiVars>>

NextMain ==
    \/ MainStart
    \/ FindOpen \/ FindOpenFails \/ FindReadFrame \/ FindReadEnd \/ FindReadFails \/ FindReadRaises
    \/ MainNoWells \/ MainTrack
    \/ TrackOpen \/ TrackOpenFails \/ TrackReadFrame \/ TrackReadEnd \/ TrackReadFails
    \/ TrackReadRaises
    \/ MainPeaks
    \/ AnalyzePeaks
    \/ MainReport

SpecMain == InitMain /\ [][NextMain]_vars

\* -------------------------------------------------- main() called once more
\* what a run of main() that has returned leaves behind
run_outcome ==
    [well_rois |-> well_rois,
     intensity_data |-> intensity_data,
     peak_results |-> peak_results,
     stdout |-> stdout,
     faulted |-> faulted]

\* lines 281-315: main() is called again on the same file with the same
\* module constants; its locals are those of a new call
MainAgain ==
    /\ pc = "main_returned"
    /\ earlier_runs = <<>>
    /\ earlier_runs' = <<run_outcome>>
    /\ pc' = "main_start"
    /\ source_io' = FALSE /\ faulted' = FALSE /\ read_failed' = FALSE
    /\ contours' = <<>> /\ max_intensity_frame' = NoFrame /\ well_rois' = NoneList
    /\ pass_metric' = None /\ frame_count' = 0
    /\ intensity_data' = <<>> /\ sampled_frames' = <<>> /\ pass_opened' = FALSE
    /\ peak_results' = <<>>
    /\ calls' = NoCalls
    /\ stdout' = <<>>
    /\ UNCHANGED <<video, contour_area, is_image_mode, invocations, heap, tabVars, schedVars, camVars, intervalVars, calVars, cap_open,
                   cap_pos, parVars, guiVars>>

NextAgain == NextMain \/ MainAgain

SpecAgain == InitMain /\ [][NextAgain]_vars

\* a line is among those printed
Printed(line) == \E i \in 1..Len(stdout) : stdout[i] = line

\* C6: when the source cannot be opened the run ends with the 'cannot open
\* source' error and not with 'no regions detected', and neither the sampler
\* nor the peak extractor has run
C6_OpenFailureIsNotNoRegions ==
    (pc = "main_returned" /\ well_rois = NoneList) =>
        /\ Printed(CANNOT_OPEN) /\ ~Printed(NO_WELLS)
        /\ calls.track = 0 /\ calls.peaks = 0

\* C7: a detector that finds nothing returns the empty list and reports no
\* error of its own; the orchestrator then ends with 'no wells detected' and
\* enters neither the sampler nor the peak extractor
C7_ZeroRoisEndWithNoRegions ==
    well_rois = <<>> =>
        /\ pc \in {"find_returned", "main_returned"}
        /\ ~Printed(CANNOT_OPEN)
        /\ calls.track = 0 /\ calls.peaks = 0
        /\ intensity_data = <<>> /\ peak_results = <<>>
        /\ pc = "main_returned" => stdout = <<NO_WELLS>>

\* a source with a lit frame whose blobs the area filter all dropped
C7_Witness ==
    /\ pc = "main_returned"
    /\ well_rois = <<>>
    /\ stdout = <<NO_WELLS>>
    /\ ~read_failed
    /\ \E i \in 1..Len(video) : \E p \in Pixels : video[i][p] > threshold_value

\* C8: a run in which a frame read failed before the end of the stream does
\* not end as a completed analysis and reports no peaks
C8_ReadFailureFailsTheRun ==
    (pc = "main_returned" /\ read_failed) =>
        ~Printed(COMPLETE) /\ peak_results = <<>>

\* ------------------------------------ run_full_analysis (spec 4.4, 6, 7)
\* The orchestrator the analysis tab calls is not among the sources; its
\* steps are those of the design: validate, open, detect, sample twice,
\* extract, assemble.  The sampler and the extractor it runs are the ones
\* above.
INVALID_PARAMETER == "InvalidParameter"
CANNOT_OPEN_SOURCE == "cannot open source"
NO_REGIONS == "no regions detected"
MID_STREAM == "read failure mid-stream"

\* the parameter check without the test of the stride
valid_parameters_any_stride(level, area, stride) == level \in 0..255 /\ area > 0

\* spec 6, 7: background_level in 0..255, min_area and stride positive
valid_parameters(level, area, stride) == level \in 0..255 /\ area > 0 /\ stride > 0

\* an error object
error_package(message) == [error |-> message]

\* the frame rate the metadata of a generated video gives
FPS == 30

\* spec 3, 4.4 step 6: the full package
full_package ==
    [well_rois |-> well_rois,
     average_intensity_data |-> average_intensity_data,
     peak_intensity_data |-> peak_intensity_data,
     intensity_data |-> intensity_data,
     numerical_data |-> peak_results,
     metric_mode |-> metric_mode,
     sample_rate |-> sample_rate,
     total_frames |-> Len(video),
     fps |-> FPS,
     error |-> None]

\* the rectangles of well A and of well B
WellA == <<0, 0, 2, 1>>
WellB == <<ImgW - 1, ImgH - 1, 1, 1>>

\* spec 4.1: what the detector can return: rectangles within the frame,
\* sorted by y, then x
DetectorResults == {<<>>, <<WellA>>, <<WellB>>, <<WellA, WellB>>}

\* the run returns an error object
RunFullFails(message) ==
    /\ results_package' = <<error_package(message)>>
    /\ pc' = "run_returned"

\* spec 7: parameters are checked before anything else
RunFullValidate ==
    /\ pc = "run_validate"
    /\ IF valid_parameters(background_level, min_area, sample_rate)
       THEN pc' = "run_open" /\ UNCHANGED results_package
       ELSE RunFullFails(INVALID_PARAMETER)
    /\ UNCHANGED <<srcVars, capVars, parVars, findVars, trackVars, peak_results, calls, stdout,
                   background_level, average_intensity_data, peak_intensity_data,
                   results_queue, delivered, viewVars>>

\* spec 4.4 steps 1, 2: the source opens and its metadata is read
RunFullOpen ==
    /\ pc = "run_open"
    /\ source_io' = TRUE
    /\ pc' = "run_detect"
    /\ UNCHANGED <<srcVars, cap_open, cap_pos, faulted, read_failed, parVars, findVars,
                   trackVars, peak_results, calls, outVars>>

\* spec 4.4 step 1: the source does not open
RunFullOpenFails ==
    /\ pc = "run_open"
    /\ source_io' = TRUE
    /\ RunFullFails(CANNOT_OPEN_SOURCE)
    /\ UNCHANGED <<srcVars, cap_open, cap_pos, faulted, read_failed, parVars, findVars,
                   trackVars, peak_results, calls, stdout, background_level,
                   average_intensity_data, peak_intensity_data, results_queue, delivered,
                   viewVars>>

\* spec 4.4 step 3: the projection pass and the detector; with no region the
\* run ends, otherwise the 'average' pass of the sampler is called
RunFullDetect ==
    /\ pc = "run_detect"
    /\ calls' = [calls EXCEPT !.find = @ + 1]
    /\ \E rois \in DetectorResults :
          /\ well_rois' = rois
          /\ IF rois = <<>>
             THEN RunFullFails(NO_REGIONS) /\ UNCHANGED pass_metric
             ELSE /\ pass_metric' = "average"
                  /\ pc' = "track_open"
                  /\ UNCHANGED results_package
    /\ UNCHANGED <<srcVars, capVars, parVars, contours, max_intensity_frame, frame_count,
                   intensity_data, sampled_frames, pass_opened, peak_results, stdout,
                   background_level, average_intensity_data, peak_intensity_data,
                   results_queue, delivered, viewVars>>

\* spec 4.4: a frame of the projection pass cannot be read
RunFullDetectReadFails ==
    /\ pc = "run_detect"
    /\ Len(video) > 0
    /\ ~faulted
    /\ faulted' = TRUE /\ read_failed' = TRUE
    /\ calls' = [calls EXCEPT !.find = @ + 1]
    /\ RunFullFails(MID_STREAM)
    /\ UNCHANGED <<srcVars, cap_open, cap_pos, source_io, parVars, findVars, trackVars,
                   peak_results, stdout, background_level, average_intensity_data,
                   peak_intensity_data, results_queue, delivered, viewVars>>

\* spec 4.2, 4.4 step 4: the 'average' pass returned; an empty result is
\* fatal, otherwise the 'peak' pass is called
RunFullAfterAverage ==
    /\ pc = "track_returned" /\ pass_metric = "average"
    /\ IF intensity_data = <<>>
       THEN /\ RunFullFails(CANNOT_OPEN_SOURCE)
            /\ UNCHANGED <<average_intensity_data, pass_metric>>
       ELSE /\ average_intensity_data' = intensity_data
            /\ pass_metric' = "peak"
            /\ pc' = "track_open"
            /\ UNCHANGED results_package
    /\ UNCHANGED <<srcVars, capVars, parVars, findVars, frame_count, intensity_data,
                   sampled_frames, pass_opened, peak_results, calls, stdout, background_level,
                   peak_intensity_data, results_queue, delivered, viewVars>>

\* spec 4.4 steps 4, 5: the 'peak' pass returned; the peak extractor is
\* called on the series of the selected metric
RunFullAfterPeak ==
    /\ pc = "track_returned" /\ pass_metric = "peak"
    /\ IF intensity_data = <<>>
       THEN /\ RunFullFails(CANNOT_OPEN_SOURCE)
            /\ UNCHANGED <<peak_intensity_data, pass_metric, intensity_data>>
       ELSE /\ peak_intensity_data' = intensity_data
            /\ intensity_data' = IF metric_mode = "peak" THEN intensity_data
                                                         ELSE average_intensity_data
            /\ pass_metric' = metric_mode
            /\ pc' = "peaks_call"
            /\ UNCHANGED results_package
    /\ UNCHANGED <<srcVars, capVars, parVars, findVars, frame_count, sampled_frames,
                   pass_opened, peak_results, calls, stdout, background_level,
                   average_intensity_data, results_queue, delivered, viewVars>>

\* spec 4.4 step 6: assemble and return the package
RunFullAssemble ==
    /\ pc = "peaks_returned"
    /\ results_package' = <<full_package>>
    /\ pc' = "run_returned"
    /\ UNCHANGED <<srcVars, capVars, parVars, findVars, trackVars, peak_results, calls, stdout,
                   background_level, average_intensity_data, peak_intensity_data,
                   results_queue, delivered, viewVars>>

\* -------------------------- run_single_image_analysis (spec 4.2, 4.4)
\* the one measurement per well of a still image, as a series of one sample
image_series(img, rois, mode) ==
    [i \in 1..Len(rois) |-> <<roi_intensity(img, rois[i], mode)>>]

\* spec 4.4 analyze_image: one series set stands for both metrics, the stride
\* is 1, the source has 1 frame and 0 fps
image_package(img, rois, mode) ==
    LET series == image_series(img, rois, mode)
    IN  [well_rois |-> rois,
         average_intensity_data |-> series,
         peak_intensity_data |-> series,
         intensity_data |-> series,
         numerical_data |-> analyze_peaks(series, mode, 1),
         metric_mode |-> mode,
         sample_rate |-> 1,
         total_frames |-> 1,
         fps |-> 0,
         error |-> None]

\* spec 7: parameters are checked before anything else
RunImageValidate ==
    /\ pc = "image_validate"
    /\ IF valid_parameters(background_level, min_area, 1)
       THEN pc' = "image_open" /\ UNCHANGED results_package
       ELSE RunFullFails(INVALID_PARAMETER)
    /\ UNCHANGED <<srcVars, capVars, parVars, findVars, trackVars, peak_results, calls, stdout,
                   background_level, average_intensity_data, peak_intensity_data,
                   results_queue, delivered, viewVars>>

\* spec 4.4: the image is read
RunImageOpen ==
    /\ pc = "image_open"
    /\ source_io' = TRUE
    /\ pc' = "image_detect"
    /\ UNCHANGED <<srcVars, cap_open, cap_pos, faulted, read_failed, parVars, findVars,
                   trackVars, peak_results, calls, outVars>>

\* spec 4.4: the image cannot be read
RunImageOpenFails ==
    /\ pc = "image_open"
    /\ source_io' = TRUE
    /\ RunFullFails(CANNOT_OPEN_SOURCE)
    /\ UNCHANGED <<srcVars, cap_open, cap_pos, faulted, read_failed, parVars, findVars,
                   trackVars, peak_results, calls, stdout, background_level,
                   average_intensity_data, peak_intensity_data, results_queue, delivered,
                   viewVars>>

\* spec 4.4: the detector runs on the image itself; with no region the run
\* ends, otherwise each well is measured once and the package returned
RunImageMeasure ==
    /\ pc = "image_detect"
    /\ calls' = [calls EXCEPT !.find = @ + 1]
    /\ \E rois \in DetectorResults :
          /\ well_rois' = rois
          /\ results_package' =
                IF rois = <<>> THEN <<error_package(NO_REGIONS)>>
                ELSE <<image_package(video[1], rois, metric_mode)>>
    /\ pc' = "run_returned"
    /\ UNCHANGED <<srcVars, capVars, parVars, contours, max_intensity_frame, trackVars,
                   peak_results, stdout, background_level, average_intensity_data,
                   peak_intensity_data, results_queue, delivered, viewVars>>

\* ----------------------------- analysis_tab.py: start_analysis, the worker
\* what the operator can have typed into the three number fields
BackgroundLevels == {0, 256}
MinAreas == {0, MIN_WELL_AREA}
SampleRates == 0..MaxStride

\* lines 161, 239: the status lines of a started and of an ended analysis
IN_PROGRESS == "Analysis in progress... please wait."
ANALYSIS_COMPLETE == "Analysis complete. See 'Results' tab."

\* start_analysis handing a still image to the video worker
StartAnalysis_always_video ==
    /\ pc = "idle"
    /\ \E level \in BackgroundLevels, area \in MinAreas, stride \in SampleRates,
          metric \in Metrics :
          /\ background_level' = level
          /\ min_area' = area
          /\ metric_mode' = metric
          /\ sample_rate' = stride
    /\ pc' = "run_validate"
    /\ ui_state' = "disabled"
    /\ status_label' = IN_PROGRESS
    /\ UNCHANGED <<srcVars, capVars, threshold_value, findVars, trackVars, peak_results, calls,
                   stdout, average_intensity_data, peak_intensity_data, results_package,
                   results_queue, delivered, shown_error, results_data, selected_tab>>

\* lines 147-175: read the fields, disable the controls, start the worker
\* thread, which calls run_full_analysis or, for a still image,
\* run_single_image_analysis
StartAnalysis ==
    /\ pc = "idle"
    /\ \E level \in BackgroundLevels, area \in MinAreas, stride \in SampleRates,
          metric \in Metrics :
          /\ background_level' = level
          /\ min_area' = area
          /\ metric_mode' = metric
          /\ IF is_image_mode
             THEN UNCHANGED sample_rate /\ stride = sample_rate /\ pc' = "image_validate"
             ELSE sample_rate' = stride /\ pc' = "run_validate"
    /\ ui_state' = "disabled"
    /\ status_label' = IN_PROGRESS
    /\ UNCHANGED <<srcVars, capVars, threshold_value, findVars, trackVars, peak_results, calls,
                   stdout, average_intensity_data, peak_intensity_data, results_package,
                   results_queue, delivered, shown_error, results_data, selected_tab>>

\* the package the worker makes of an exception, with no message in it
worker_exception_package_blank == [error |-> ""]

\* line 183: the package the worker makes of an exception
worker_exception_package == [error |-> "A critical error occurred"]

\* lines 180-181: run_full_analysis returned; queue its package
WorkerPut ==
    /\ pc = "run_returned"
    /\ results_queue' = Append(results_queue, results_package[1])
    /\ pc' = "worker_done"
    /\ UNCHANGED <<srcVars, capVars, parVars, findVars, trackVars, peak_results, calls, stdout,
                   background_level, average_intensity_data, peak_intensity_data,
                   results_package, delivered, viewVars>>

\* lines 182-183: run_full_analysis raised; queue an error package.  The
\* capture of the abandoned pass is released when its object is collected,
\* which is by now or later
WorkerExcept ==
    /\ pc = "raised"
    /\ results_queue' = Append(results_queue, worker_exception_package)
    /\ cap_open' \in {cap_open, FALSE}
    /\ pc' = "worker_done"
    /\ UNCHANGED <<srcVars, cap_pos, source_io, faulted, read_failed, parVars, findVars,
                   trackVars, peak_results, calls, stdout,
                   background_level, average_intensity_data, peak_intensity_data,
                   results_package, delivered, viewVars>>

\* dict.get(key)
dict_get(d, key) == IF key \in DOMAIN d THEN d[key] ELSE None

\* a truth value that takes every string for false
truthy_never(v) == FALSE

\* the truth value of a string or None
truthy(v) == v # None /\ v # ""

\* analysis_tab.py lines 236-241, main.py lines 72-81, results_tab.py lines
\* 137-139: the poll finds a package, enables the controls and hands the
\* package to handle_analysis_results, which shows its error or has the
\* results tab display it and the notebook select that tab
CheckAnalysisQueue ==
    /\ results_queue # <<>>
    /\ LET result == Head(results_queue)
       IN  /\ results_queue' = Tail(results_queue)
           /\ delivered' = Append(delivered, result)
           /\ IF truthy(dict_get(result, "error"))
              THEN /\ shown_error' = result["error"]
                   /\ UNCHANGED <<results_data, selected_tab, controls_state>>
              ELSE /\ results_data' = <<result>>
                   /\ controls_state' = "normal"
                   /\ selected_tab' = "Results"
                   /\ UNCHANGED shown_error
    /\ ui_state' = "normal"
    /\ status_label' = ANALYSIS_COMPLETE
    /\ pc' = "shown"
    /\ UNCHANGED <<video, contour_area, is_image_mode, earlier_runs, invocations, heap, schedVars, camVars, intervalVars, calVars,
                   media_loaded, workers_running, started, capVars, parVars, findVars,
                   trackVars, peak_results, calls, stdout, background_level,
                   average_intensity_data, peak_intensity_data, results_package>>

\* the package of an analysis that ended earlier
EarlierPackage ==
    [well_rois |-> <<WellA>>,
     average_intensity_data |-> <<<<0>>>>,
     peak_intensity_data |-> <<<<0>>>>,
     intensity_data |-> <<<<0>>>>,
     numerical_data |-> <<[well_id |-> 0, intensity |-> 0, frame |-> 0,
                           metric_mode |-> "average"]>>,
     metric_mode |-> "average",
     sample_rate |-> SAMPLE_RATE,
     total_frames |-> Len(<<zeros>>),
     fps |-> 0,
     error |-> None]

\* a video or a still image is loaded and the results tab holds nothing or
\* the results of an earlier analysis
Init ==
    /\ pc = "idle"
    /\ video \in Videos
    /\ contour_area = <<>>
    /\ is_image_mode \in BOOLEAN /\ earlier_runs = <<>> /\ NoInvocations /\ SchedulerAtRest /\ CameraAtRest /\ IntervalAtRest /\ CalibrationAtRest
    /\ media_loaded = TRUE /\ workers_running = <<>> /\ started = 0
    /\ is_image_mode => Len(video) = Len(<<zeros>>)
    /\ cap_open = FALSE /\ cap_pos = 0 /\ source_io = FALSE
    /\ faulted = FALSE /\ read_failed = FALSE
    /\ threshold_value = WELL_DETECTION_THRESHOLD
    /\ min_area = MIN_WELL_AREA
    /\ metric_mode = "average"
    /\ sample_rate = SAMPLE_RATE
    /\ FindAtRest /\ TrackAtRest
    /\ peak_results = <<>>
    /\ calls = NoCalls
    /\ stdout = <<>>
    /\ background_level = 0
    /\ average_intensity_data = <<>> /\ peak_intensity_data = <<>>
    /\ results_package = <<>> /\ results_queue = <<>> /\ delivered = <<>>
    /\ shown_error = None
    /\ results_data \in {<<>>, <<EarlierPackage>>}
    /\ controls_state = IF results_data = <<>> THEN "disabled" ELSE "normal"
    /\ selected_tab = "Analysis"
    /\ status_label = MEDIA_LOADED
    /\ ui_state = "normal"

Next ==
    \/ StartAnalysis
    \/ RunFullValidate
    \/ RunFullOpen \/ RunFullOpenFails
    \/ RunFullDetect \/ RunFullDetectReadFails
    \/ TrackOpen \/ TrackOpenFails \/ TrackReadFrame \/ TrackReadEnd \/ TrackReadFails
    \/ TrackReadRaises
    \/ RunFullAfterAverage \/ RunFullAfterPeak
    \/ AnalyzePeaks
    \/ RunFullAssemble
    \/ RunImageValidate \/ RunImageOpen \/ RunImageOpenFails \/ RunImageMeasure
    \/ WorkerPut \/ WorkerExcept
    \/ CheckAnalysisQueue

Spec == Init /\ [][Next]_vars

\* ------------------------- track_well_intensities called on worker threads
\* the list object a call makes under one name for all calls
new_list_shared(w) == "worker_a"

\* line 138: intensity_data = [[] for _ in well_rois] makes a list object of
\* the call's own
new_list(w) == w

\* the ROI lists the calls are given
CallRois == {<<WellA>>, <<WellA, WellB>>}

\* analysis_tab.py lines 169-175, well_analyzer.py line 122: a worker thread
\* calls track_well_intensities with its own arguments
Call(w) ==
    /\ pc = "workers"
    /\ invocations[w].pc = "idle"
    /\ \E rois \in CallRois, mode \in Metrics, stride \in 1..MaxStride :
          invocations' = [invocations EXCEPT ![w] =
                            [@ EXCEPT !.pc = "track_open", !.well_rois = rois,
                                      !.metric_mode = mode, !.sample_rate = stride]]
    /\ UNCHANGED <<pc, video, contour_area, is_image_mode, earlier_runs, heap, tabVars, schedVars, camVars, intervalVars, calVars, capVars,
                   parVars,
                   findVars, trackVars, peak_results, calls, outVars>>

\* lines 133-139: the call's capture opens, its list is made
CallOpen(w) ==
    /\ pc = "workers"
    /\ invocations[w].pc = "track_open"
    /\ LET list == new_list(w)
       IN  /\ heap' = [heap EXCEPT ![list] = [i \in 1..Len(invocations[w].well_rois) |-> <<>>]]
           /\ invocations' = [invocations EXCEPT ![w] =
                                 [@ EXCEPT !.pc = "track_read", !.opened = TRUE, !.cap_pos = 0,
                                           !.frame_count = 0, !.intensity_data = list]]
    /\ UNCHANGED <<pc, video, contour_area, is_image_mode, earlier_runs, tabVars, schedVars, camVars, intervalVars, calVars, capVars,
                   parVars,
                   findVars, trackVars, peak_results, calls, outVars>>

\* lines 133-136: the call's capture does not open: return []
CallOpenFails(w) ==
    /\ pc = "workers"
    /\ invocations[w].pc = "track_open"
    /\ LET list == new_list(w)
       IN  /\ heap' = [heap EXCEPT ![list] = <<>>]
           /\ invocations' = [invocations EXCEPT ![w] =
                                 [@ EXCEPT !.pc = "track_returned", !.intensity_data = list]]
    /\ UNCHANGED <<pc, video, contour_area, is_image_mode, earlier_runs, tabVars, schedVars, camVars, intervalVars, calVars, capVars,
                   parVars,
                   findVars, trackVars, peak_results, calls, outVars>>

\* lines 141-166: the call reads its next frame and, if the frame is one to
\* sample, appends a sample per well to its list
CallReadFrame(w) ==
    /\ pc = "workers"
    /\ invocations[w].pc = "track_read"
    /\ invocations[w].cap_pos < Len(video)
    /\ LET call == invocations[w]
           frame == video[call.cap_pos + 1]
           list == call.intensity_data
       IN  /\ heap' =
                 IF is_sampled(call.frame_count, call.sample_rate)
                 THEN [heap EXCEPT ![list] =
                         [i \in 1..Len(call.well_rois) |->
                             append_sample(IF i <= Len(heap[list]) THEN heap[list][i] ELSE <<>>,
                                           frame, call.well_rois[i], call.metric_mode)]]
                 ELSE heap
           /\ invocations' = [invocations EXCEPT ![w] =
                                 [@ EXCEPT !.frame_count = @ + 1, !.cap_pos = @ + 1]]
    /\ UNCHANGED <<pc, video, contour_area, is_image_mode, earlier_runs, tabVars, schedVars, camVars, intervalVars, calVars, capVars,
                   parVars,
                   findVars, trackVars, peak_results, calls, outVars>>

\* lines 142-144, 168-170: the call's stream is at its end: break, release,
\* return the list
CallReadEnd(w) ==
    /\ pc = "workers"
    /\ invocations[w].pc = "track_read"
    /\ invocations[w].cap_pos = Len(video)
    /\ invocations' = [invocations EXCEPT ![w] = [@ EXCEPT !.pc = "track_returned"]]
    /\ UNCHANGED <<pc, video, contour_area, is_image_mode, earlier_runs, heap, tabVars, schedVars, camVars, intervalVars, calVars, capVars,
                   parVars,
                   findVars, trackVars, peak_results, calls, outVars>>

\* the files the workers read: every frame dark or with both wells lit
WorkerVideos == SeqsUpTo({Glow(0, 0), Glow(PEAK_BRIGHTNESS, 200)}, MaxFrames)

\* a file is loaded and no worker has called yet
InitWorkers ==
    /\ pc = "workers"
    /\ video \in WorkerVideos
    /\ contour_area = <<>> /\ is_image_mode = FALSE /\ earlier_runs = <<>> /\ NoInvocations /\ TabsAtRest /\ SchedulerAtRest /\ CameraAtRest /\ IntervalAtRest /\ CalibrationAtRest
    /\ cap_open = FALSE /\ cap_pos = 0 /\ source_io = FALSE
    /\ faulted = FALSE /\ read_failed = FALSE
    /\ threshold_value = 0 /\ min_area = 0
    /\ metric_mode = "average" /\ sample_rate = 1
    /\ FindAtRest /\ TrackAtRest
    /\ peak_results = <<>>
    /\ calls = NoCalls /\ OutAtRest

NextWorkers ==
    \E w \in Workers :
        \/ Call(w)
        \/ CallOpen(w)
        \/ CallOpenFails(w)
        \/ CallReadFrame(w)
        \/ CallReadEnd(w)

SpecWorkers == InitWorkers /\ [][NextWorkers]_vars

\* ------------------- the analysis tab and the results tab, run after run
MaxRuns == 2       \* most analyses started in one session

\* analysis_tab.py lines 50, 201: the status line with no file loaded
LOAD_PROMPT == "Load a video or image to begin."

\* set_ui_state, lines 205-209: the Load button is enabled by
\* set_ui_state(DISABLED) and disabled by set_ui_state(NORMAL)
load_button_enabled == ui_state = "disabled"

\* set_ui_state, lines 206-210: Run and Clear are enabled when a file is
\* loaded and the state asked for is NORMAL
run_button_enabled == media_loaded /\ ui_state = "normal"

\* the package a worker returns for its arguments when the run succeeds
worker_package(args) == [EarlierPackage EXCEPT !.metric_mode = args.metric_mode]

\* lines 103-145: Load Media: clear_media, then the file that was picked is
\* opened and set_ui_state(NORMAL) called; a file that cannot be read ends
\* in clear_media
LoadMedia ==
    /\ pc = "tabs"
    /\ load_button_enabled
    /\ \/ /\ media_loaded' = TRUE
          /\ is_image_mode' \in BOOLEAN
          /\ ui_state' = "normal"
          /\ status_label' = MEDIA_LOADED
          /\ UNCHANGED shown_error
       \/ /\ media_loaded' = FALSE
          /\ is_image_mode' = FALSE
          /\ ui_state' = "disabled"
          /\ status_label' = LOAD_PROMPT
          /\ shown_error' = "Could not load media"
    /\ background_level' = 0
    /\ cal_value_var' = "0"
    /\ UNCHANGED <<pc, video, contour_area, earlier_runs, invocations, heap, schedVars, camVars,
                   intervalVars, cal_spinbox_state, workers_running,
                   started, controls_state, capVars, parVars, findVars, trackVars,
                   peak_results, calls, stdout, average_intensity_data, peak_intensity_data,
                   results_package, results_queue, delivered, results_data, selected_tab>>

\* lines 193-201: Clear
ClearMedia ==
    /\ pc = "tabs"
    /\ run_button_enabled
    /\ media_loaded' = FALSE
    /\ is_image_mode' = FALSE
    /\ background_level' = 0
    /\ ui_state' = "disabled"
    /\ status_label' = LOAD_PROMPT
    /\ cal_value_var' = "0"
    /\ UNCHANGED <<pc, video, contour_area, earlier_runs, invocations, heap, schedVars, camVars,
                   intervalVars, cal_spinbox_state, workers_running,
                   started, controls_state, capVars, parVars, findVars, trackVars,
                   peak_results, calls, stdout, average_intensity_data, peak_intensity_data,
                   results_package, results_queue, delivered, shown_error, results_data,
                   selected_tab>>

\* what can stand in the calibration spinbox
CalTexts == {"-1", "0", "7", "255", "256", "abc"}

\* int(text) raises ValueError
not_a_number(text) == text \notin {"-1", "0", "7", "255", "256"}

\* int(text)
int(text) ==
    CASE text = "-1" -> 0 - 1
      [] text = "0" -> 0
      [] text = "7" -> 7
      [] text = "255" -> 255
      [] text = "256" -> 256

\* str(level)
str(level) ==
    CASE level = 0 - 1 -> "-1"
      [] level = 0 -> "0"
      [] level = 7 -> "7"
      [] level = 255 -> "255"
      [] level = 256 -> "256"

\* lines 154, 250: the error boxes for a calibration value
CAL_NOT_A_NUMBER == "Calibration value must be a number."
CAL_OUT_OF_RANGE == "Please enter a whole number between 0 and 255."

\* lines 147-175: Run Analysis: the calibration value is read from the
\* spinbox; then the controls are disabled, a worker thread is started with
\* the fields as its arguments and the poll scheduled
RunAnalysis ==
    /\ pc = "tabs"
    /\ run_button_enabled
    /\ started < MaxRuns
    /\ IF not_a_number(cal_value_var)
       THEN /\ shown_error' = CAL_NOT_A_NUMBER
            /\ UNCHANGED <<background_level, metric_mode, workers_running, started, ui_state,
                           status_label>>
       ELSE /\ background_level' = int(cal_value_var)
            /\ \E metric \in Metrics :
                  /\ metric_mode' = metric
                  /\ workers_running' =
                         Append(workers_running, [metric_mode |-> metric,
                                                  background_level |-> int(cal_value_var)])
            /\ started' = started + 1
            /\ ui_state' = "disabled"
            /\ status_label' = IN_PROGRESS
            /\ UNCHANGED shown_error
    /\ UNCHANGED <<pc, video, contour_area, is_image_mode, earlier_runs, invocations, heap,
                   schedVars, camVars, intervalVars, calVars,
                   media_loaded, controls_state, capVars, threshold_value, min_area,
                   sample_rate, findVars, trackVars, peak_results, calls, stdout,
                   average_intensity_data, peak_intensity_data,
                   results_package, results_queue, delivered, results_data,
                   selected_tab>>

\* the user types into the spinbox while it can be edited
TypeCalValue ==
    /\ pc = "tabs"
    /\ cal_spinbox_state = "normal"
    /\ cal_value_var' \in CalTexts \ {cal_value_var}
    /\ UNCHANGED <<pc, video, contour_area, is_image_mode, earlier_runs, invocations, heap,
                   tabVars, schedVars, camVars, intervalVars, cal_spinbox_state, capVars,
                   parVars, findVars, trackVars, peak_results, calls, outVars>>

\* lines 242-250: Edit makes the spinbox editable; Lock takes a whole number
\* in 0..255 as the background level and rejects anything else, putting the
\* level back in the spinbox
toggle_cal_value_edit ==
    /\ pc = "tabs"
    /\ run_button_enabled
    /\ IF cal_spinbox_state = "readonly"
       THEN /\ cal_spinbox_state' = "normal"
            /\ UNCHANGED <<cal_value_var, background_level, status_label, shown_error>>
       ELSE IF not_a_number(cal_value_var) \/ ~(0 <= int(cal_value_var) /\ int(cal_value_var) <= 255)
            THEN /\ shown_error' = CAL_OUT_OF_RANGE
                 /\ cal_value_var' = str(background_level)
                 /\ UNCHANGED <<cal_spinbox_state, background_level, status_label>>
            ELSE /\ background_level' = int(cal_value_var)
                 /\ cal_spinbox_state' = "readonly"
                 /\ status_label' = "Manual calibration value set."
                 /\ UNCHANGED <<cal_value_var, shown_error>>
    /\ UNCHANGED <<pc, video, contour_area, is_image_mode, earlier_runs, invocations, heap,
                   tabVars, schedVars, camVars, intervalVars, capVars, parVars, findVars,
                   trackVars, peak_results, calls, stdout, average_intensity_data,
                   peak_intensity_data, results_package, results_queue, delivered,
                   results_data, selected_tab, ui_state>>

\* lines 177-191: a worker's run has ended, with results or with an error;
\* the worker puts the package in the queue and ends
WorkerEnds(i) ==
    /\ pc = "tabs"
    /\ i \in 1..Len(workers_running)
    /\ \E package \in {worker_package(workers_running[i]), error_package(NO_REGIONS)} :
          results_queue' = Append(results_queue, package)
    /\ workers_running' = [k \in 1..(Len(workers_running) - 1) |->
                              IF k < i THEN workers_running[k] ELSE workers_running[k + 1]]
    /\ UNCHANGED <<pc, video, contour_area, is_image_mode, earlier_runs, invocations, heap, schedVars, camVars, intervalVars, calVars,
                   media_loaded, started, controls_state, capVars, parVars, findVars,
                   trackVars, peak_results, calls, stdout, background_level,
                   average_intensity_data, peak_intensity_data, results_package, delivered,
                   viewVars>>

\* analysis_tab.py lines 236-241, main.py lines 72-81, results_tab.py lines
\* 137-159: a scheduled poll finds a package: as CheckAnalysisQueue
PollFindsPackage ==
    /\ pc = "tabs"
    /\ started > Len(delivered)
    /\ results_queue # <<>>
    /\ LET result == Head(results_queue)
       IN  /\ results_queue' = Tail(results_queue)
           /\ delivered' = Append(delivered, result)
           /\ IF truthy(dict_get(result, "error"))
              THEN /\ shown_error' = result["error"]
                   /\ UNCHANGED <<results_data, selected_tab, controls_state>>
              ELSE /\ results_data' = <<result>>
                   /\ controls_state' = "normal"
                   /\ selected_tab' = "Results"
                   /\ UNCHANGED shown_error
    /\ ui_state' = "normal"
    /\ status_label' = ANALYSIS_COMPLETE
    /\ UNCHANGED <<pc, video, contour_area, is_image_mode, earlier_runs, invocations, heap, schedVars, camVars, intervalVars, calVars,
                   media_loaded, workers_running, started, capVars, parVars, findVars,
                   trackVars, peak_results, calls, stdout, background_level,
                   average_intensity_data, peak_intensity_data, results_package>>

\* results_tab.py lines 450-467: Clear Results
ClearResults ==
    /\ pc = "tabs"
    /\ controls_state = "normal"
    /\ results_data' = <<>>
    /\ controls_state' = "disabled"
    /\ UNCHANGED <<pc, video, contour_area, is_image_mode, earlier_runs, invocations, heap, schedVars, camVars, intervalVars, calVars,
                   media_loaded, workers_running, started, capVars, parVars, findVars,
                   trackVars, peak_results, calls, stdout, background_level,
                   average_intensity_data, peak_intensity_data, results_package,
                   results_queue, delivered, shown_error, selected_tab, status_label,
                   ui_state>>

\* the window as constructed: no file loaded, no results
InitTabs ==
    /\ pc = "tabs"
    /\ video = <<>> /\ contour_area = <<>> /\ is_image_mode = FALSE
    /\ earlier_runs = <<>> /\ NoInvocations /\ SchedulerAtRest /\ CameraAtRest /\ IntervalAtRest /\ CalibrationAtRest
    /\ media_loaded = FALSE /\ workers_running = <<>> /\ started = 0
    /\ controls_state = "disabled"
    /\ cap_open = FALSE /\ cap_pos = 0 /\ source_io = FALSE
    /\ faulted = FALSE /\ read_failed = FALSE
    /\ threshold_value = 0 /\ min_area = MIN_WELL_AREA
    /\ metric_mode = "average" /\ sample_rate = 1
    /\ FindAtRest /\ TrackAtRest
    /\ peak_results = <<>>
    /\ calls = NoCalls
    /\ stdout = <<>>
    /\ background_level = 0
    /\ average_intensity_data = <<>> /\ peak_intensity_data = <<>>
    /\ results_package = <<>> /\ results_queue = <<>> /\ delivered = <<>>
    /\ shown_error = None /\ results_data = <<>>
    /\ selected_tab = "Analysis"
    /\ status_label = LOAD_PROMPT
    /\ ui_state = "disabled"

NextTabs ==
    \/ LoadMedia
    \/ ClearMedia
    \/ RunAnalysis
    \/ TypeCalValue
    \/ toggle_cal_value_edit
    \/ \E i \in 1..MaxRuns : WorkerEnds(i)
    \/ PollFindsPackage
    \/ ClearResults

SpecTabs == InitTabs /\ [][NextTabs]_vars

\* ------------------------------------------------- interval_scheduler.py
\* everything but the scheduler
nonSchedVars ==
    <<pc, video, contour_area, is_image_mode, earlier_runs, invocations, heap, tabVars, camVars,
      intervalVars, calVars, capVars, parVars, findVars, trackVars, peak_results, calls, outVars>>

\* dict.get(key, default)
dict_get_or(d, key, default) == IF key \in DOMAIN d THEN d[key] ELSE default

\* a test that lets an empty list through
no_phases_never(phases) == FALSE

\* line 31: not phases
no_phases(phases) == phases = <<>>

\* line 30
sched_phases == dict_get_or(schedule, "phases", <<>>)

\* line 37
repeat_count == dict_get_or(schedule, "repeat_count", 0)

\* line 38
is_infinite == dict_get_or(schedule, "infinite_repeat", FALSE)

\* a total that leaves the first cycle out
total_cycles_repeats_only == repeat_count

\* line 41, for a schedule that is not infinite
total_cycles == repeat_count + 1

\* line 32: the text of the ValueError
NO_PHASES == "Schedule contains no phases."

\* what a callback that raises raises
CALLBACK_FAILED == "callback failed"

\* line 75: f"Scheduler error: {e}"
scheduler_error(e) == <<"Scheduler error: ", e>>

\* the log with one more call of a callback in it
invoked(name, args) == Append(callback_log, [callback |-> name, args |-> args, at |-> clock])

\* the arguments of on_phase_change with the cycles counted from 0
phase_change_args_from_zero ==
    LET phase == sched_phases[phase_index]
    IN  [phase_name |-> phase.name, duration |-> phase.duration, cycle_num |-> cycle_num - 1,
         repeat_count |-> repeat_count, action |-> phase.action]

\* lines 50-52, 59-61: the arguments of on_phase_change for the phase at hand
phase_change_args ==
    LET phase == sched_phases[phase_index]
    IN  [phase_name |-> phase.name, duration |-> phase.duration, cycle_num |-> cycle_num,
         repeat_count |-> repeat_count, action |-> phase.action]

\* lines 29-43: the phases are read; an empty list raises ValueError
RunBegin ==
    /\ sched_pc = "run"
    /\ IF no_phases(sched_phases)
       THEN sched_error' = NO_PHASES /\ sched_pc' = "except" /\ UNCHANGED cycle_num
       ELSE cycle_num' = 0 /\ sched_pc' = "while" /\ UNCHANGED sched_error
    /\ UNCHANGED <<schedule, phase_index, tick_t, stop_event, callback_log, clock,
                   callback_raised, log_at_stop, nonSchedVars>>

\* lines 45-47: the test of the while loop; a cycle begins or the loop ends.
\* A schedule that repeats forever is followed for MaxCycles cycles
WhileTest ==
    /\ sched_pc = "while"
    /\ IF ~stop_event /\ (is_infinite \/ cycle_num < total_cycles)
       THEN /\ is_infinite => cycle_num < MaxCycles
            /\ cycle_num' = cycle_num + 1
            /\ phase_index' = 1
            /\ sched_pc' = "for_phase"
       ELSE /\ sched_pc' = "if_not_stopped"
            /\ UNCHANGED <<cycle_num, phase_index>>
    /\ UNCHANGED <<schedule, tick_t, stop_event, callback_log, clock, sched_error,
                   callback_raised, log_at_stop, nonSchedVars>>

\* lines 47-52: the next phase of the cycle, if there is one and stop has not
\* been asked for
ForPhase ==
    /\ sched_pc = "for_phase"
    /\ sched_pc' = IF phase_index > Len(sched_phases) \/ stop_event
                   THEN "while" ELSE "on_phase_change"
    /\ UNCHANGED <<schedule, cycle_num, phase_index, tick_t, stop_event, callback_log, clock,
                   sched_error, callback_raised, log_at_stop, nonSchedVars>>

\* lines 59-64: on_phase_change is called and returns; the countdown starts
PhaseChange ==
    /\ sched_pc = "on_phase_change"
    /\ callback_log' = invoked("on_phase_change", phase_change_args)
    /\ tick_t' = sched_phases[phase_index].duration
    /\ sched_pc' = "for_t"
    /\ UNCHANGED <<schedule, cycle_num, phase_index, stop_event, clock, sched_error,
                   callback_raised, log_at_stop, nonSchedVars>>

\* lines 64-65: the next second of the countdown, if there is one and stop
\* has not been asked for
ForT ==
    /\ sched_pc = "for_t"
    /\ sched_pc' = IF tick_t = 0 \/ stop_event THEN "after_countdown" ELSE "on_tick"
    /\ UNCHANGED <<schedule, cycle_num, phase_index, tick_t, stop_event, callback_log, clock,
                   sched_error, callback_raised, log_at_stop, nonSchedVars>>

\* line 66: on_tick is called and returns
Tick ==
    /\ sched_pc = "on_tick"
    /\ callback_log' = invoked("on_tick", [t |-> tick_t])
    /\ sched_pc' = "sleep"
    /\ UNCHANGED <<schedule, cycle_num, phase_index, tick_t, stop_event, clock, sched_error,
                   callback_raised, log_at_stop, nonSchedVars>>

\* lines 64, 67: time.sleep(1), and t goes down by one
Sleep ==
    /\ sched_pc = "sleep"
    /\ clock' = clock + 1
    /\ tick_t' = tick_t - 1
    /\ sched_pc' = "for_t"
    /\ UNCHANGED <<schedule, cycle_num, phase_index, stop_event, callback_log, sched_error,
                   callback_raised, log_at_stop, nonSchedVars>>

\* lines 47, 69: after the countdown: leave the cycle if stop has been asked
\* for, else go to the next phase
AfterCountdown ==
    /\ sched_pc = "after_countdown"
    /\ IF stop_event
       THEN sched_pc' = "while" /\ UNCHANGED phase_index
       ELSE sched_pc' = "for_phase" /\ phase_index' = phase_index + 1
    /\ UNCHANGED <<schedule, cycle_num, tick_t, stop_event, callback_log, clock, sched_error,
                   callback_raised, log_at_stop, nonSchedVars>>

\* line 71: if not self._stop_event.is_set()
IfNotStopped ==
    /\ sched_pc = "if_not_stopped"
    /\ sched_pc' = IF ~stop_event THEN "on_complete" ELSE "done"
    /\ UNCHANGED <<schedule, cycle_num, phase_index, tick_t, stop_event, callback_log, clock,
                   sched_error, callback_raised, log_at_stop, nonSchedVars>>

\* line 72: on_complete is called and returns; run() ends
Complete ==
    /\ sched_pc = "on_complete"
    /\ callback_log' = invoked("on_complete", [none |-> TRUE])
    /\ sched_pc' = "done"
    /\ UNCHANGED <<schedule, cycle_num, phase_index, tick_t, stop_event, clock, sched_error,
                   callback_raised, log_at_stop, nonSchedVars>>

\* lines 59, 66, 72, 74: a callback called inside the try block raises: the
\* call has been made, and the exception is caught at line 74
CallbackRaises ==
    /\ sched_pc \in {"on_phase_change", "on_tick", "on_complete"}
    /\ ~callback_raised
    /\ callback_log' = invoked(sched_pc,
                               IF sched_pc = "on_phase_change" THEN phase_change_args
                               ELSE IF sched_pc = "on_tick" THEN [t |-> tick_t]
                               ELSE [none |-> TRUE])
    /\ callback_raised' = TRUE
    /\ sched_error' = CALLBACK_FAILED
    /\ sched_pc' = "except"
    /\ UNCHANGED <<schedule, cycle_num, phase_index, tick_t, stop_event, clock, log_at_stop,
                   nonSchedVars>>

\* lines 74-75: on_error is called with the message; run() ends
Except ==
    /\ sched_pc = "except"
    /\ callback_log' = invoked("on_error", [message |-> scheduler_error(sched_error)])
    /\ sched_pc' = "done"
    /\ UNCHANGED <<schedule, cycle_num, phase_index, tick_t, stop_event, clock, sched_error,
                   callback_raised, log_at_stop, nonSchedVars>>

\* lines 77-79, called from another thread while run() is under way
Stop ==
    /\ sched_pc # "done"
    /\ ~stop_event
    /\ stop_event' = TRUE
    /\ log_at_stop' = Len(callback_log)
    /\ UNCHANGED <<schedule, sched_pc, cycle_num, phase_index, tick_t, callback_log, clock,
                   sched_error, callback_raised, nonSchedVars>>

\* the phases a schedule is made of
PhaseSet ==
    {[name |-> "Record", action |-> "Record", duration |-> d] : d \in 0..MaxDuration}
    \cup {[name |-> "Wait", action |-> "Wait", duration |-> 1]}

\* capture_tab.py lines 146-151: a schedule as the dialog saves it, and the
\* same with the infinite_repeat key in it
Schedules ==
    LET Saved == {[phases |-> ps, repeat_count |-> r] :
                     ps \in SeqsUpTo(PhaseSet, MaxPhases), r \in 0..MaxRepeat}
    IN  Saved \cup {[phases |-> c.phases, repeat_count |-> c.repeat_count,
                     infinite_repeat |-> TRUE] : c \in Saved}

\* lines 12-25, capture_tab.py line 458: a scheduler is made of a schedule
\* and its thread started
InitScheduler ==
    /\ pc = "scheduler"
    /\ SourceAtRestButScheduler /\ CameraAtRest /\ IntervalAtRest /\ CalibrationAtRest
    /\ schedule \in Schedules
    /\ sched_pc = "run" /\ cycle_num = 0 /\ phase_index = 0 /\ tick_t = 0
    /\ stop_event = FALSE /\ callback_log = <<>> /\ clock = 0
    /\ sched_error = None /\ callback_raised = FALSE /\ log_at_stop = 0
    /\ threshold_value = 0 /\ min_area = 0
    /\ metric_mode = "average" /\ sample_rate = 1
    /\ FindAtRest /\ TrackAtRest
    /\ peak_results = <<>>
    /\ calls = NoCalls /\ OutAtRest

\* the steps of the scheduler thread in which no callback raises
RunStep ==
    \/ RunBegin
    \/ WhileTest
    \/ ForPhase
    \/ PhaseChange
    \/ ForT
    \/ Tick
    \/ Sleep
    \/ AfterCountdown
    \/ IfNotStopped
    \/ Complete
    \/ Except

NextScheduler ==
    \/ RunStep
    \/ CallbackRaises
    \/ Stop

SpecScheduler == InitScheduler /\ [][NextScheduler]_vars

\* the thread, once started, keeps running: Thread.start at capture_tab.py
\* line 458
SpecSchedulerRuns == SpecScheduler /\ WF_vars(RunStep)

\* --------------------------- a 10-frame video that rises, peaks and falls
RECURSIVE Ascending(_)
Ascending(S) == IF S = {} THEN <<>> ELSE <<SetMin(S)>> \o Ascending(S \ {SetMin(S)})

RECURSIVE Descending(_)
Descending(S) == IF S = {} THEN <<>> ELSE <<SetMax(S)>> \o Descending(S \ {SetMax(S)})

\* the brightness of the well frame by frame: five levels rising strictly
\* over frames 0 to 4, the highest level at frame 5, four levels falling
\* strictly over frames 6 to 9
RiseFallSeries ==
    UNION {{Ascending(R) \o <<top>> \o Descending(F) :
                R \in {S \in SUBSET (0..(top - 1)) : Cardinality(S) = 5},
                F \in {S \in SUBSET (0..(top - 1)) : Cardinality(S) = 4}} :
           top \in 1..MaxLevel}

RiseFallVideos == {[k \in 1..10 |-> Glow(levels[k], 0)] : levels \in RiseFallSeries}

\* the video is tracked over the one well A, in either metric and with a
\* stride, and the series go to analyze_peaks
InitRiseFall ==
    /\ pc = "track_open"
    /\ video \in RiseFallVideos
    /\ contour_area = <<>> /\ is_image_mode = FALSE /\ earlier_runs = <<>> /\ NoInvocations /\ TabsAtRest /\ SchedulerAtRest /\ CameraAtRest /\ IntervalAtRest /\ CalibrationAtRest
    /\ cap_open = FALSE /\ cap_pos = 0 /\ source_io = FALSE
    /\ faulted = FALSE /\ read_failed = FALSE
    /\ threshold_value = 0 /\ min_area = 0
    /\ metric_mode \in Metrics
    /\ sample_rate \in 1..MaxStride
    /\ contours = <<>> /\ max_intensity_frame = NoFrame
    /\ well_rois = <<WellA>>
    /\ pass_metric = metric_mode
    /\ frame_count = 0 /\ intensity_data = <<>> /\ sampled_frames = <<>>
    /\ pass_opened = FALSE
    /\ peak_results = <<>>
    /\ calls = NoCalls /\ OutAtRest

NextRiseFall ==
    \/ TrackOpen
    \/ TrackReadFrame
    \/ TrackReadEnd
    \/ MainPeaks
    \/ AnalyzePeaks

SpecRiseFall == InitRiseFall /\ [][NextRiseFall]_vars

\* a package carries results
Populated(package) ==
    {"well_rois", "intensity_data", "numerical_data"} \subseteq DOMAIN package

\* a package carries an error
HasError(package) == truthy(dict_get(package, "error"))

\* C5: every package the caller is handed carries either results or an
\* error, never both and never neither, the window shows the one it carries,
\* and an invocation only comes to rest once its package has been handed over
C5_ExactlyOneOfResultOrError ==
    /\ \A i \in 1..Len(delivered) :
          /\ Populated(delivered[i]) # HasError(delivered[i])
          /\ HasError(delivered[i]) <=> shown_error # None
          /\ Populated(delivered[i]) <=> results_data = <<delivered[i]>>
    /\ ~ENABLED Next => Len(delivered) = 1

\* the worker caught an exception of the sampler and the window showed it
C5_Witness ==
    /\ pc = "shown"
    /\ delivered = <<worker_exception_package>>
    /\ shown_error = worker_exception_package["error"]
    /\ results_data = <<>>
    /\ cap_pos = 1

\* the parameters of the invocation are not all in range
InvalidInput ==
    \/ background_level < 0 \/ background_level > 255
    \/ min_area <= 0
    \/ sample_rate <= 0

C10_FailuresReachCallerAsErrors ==
    (pc = "shown" /\ (faulted \/ Printed(CANNOT_REOPEN))) =>
        \A i \in 1..Len(delivered) : HasError(delivered[i])

\* C11: wherever a pass has been left (it returned or it raised) and after
\* the run has ended, the capture the pass opened is no longer held
C11_HandlesReleasedOnEveryExit ==
    pc \in {"find_returned", "track_returned", "raised", "main_returned"} => ~cap_open

\* the stage of the run of main()
Stage ==
    CASE pc = "main_start" -> "Idle"
      [] pc = "find_open" -> "OpeningSource"
      [] pc = "find_read" -> "DetectingRegions"
      [] pc = "find_returned" ->
            IF well_rois = NoneList THEN "OpeningSource" ELSE "DetectingRegions"
      [] pc \in {"track_open", "track_read", "track_returned"} -> "Sampling"
      [] pc \in {"peaks_call", "peaks_returned"} -> "ExtractingPeaks"
      [] pc = "main_returned" -> IF Printed(COMPLETE) THEN "Done" ELSE "Failed"
      [] pc = "raised" -> "Failed"

StageOrder ==
    {<<"Idle", "OpeningSource">>, <<"OpeningSource", "DetectingRegions">>,
     <<"DetectingRegions", "Sampling">>, <<"Sampling", "ExtractingPeaks">>,
     <<"ExtractingPeaks", "Done">>}

TerminalStages == {"Done", "Failed"}

\* C12: a run of main() moves from stage to stage in the order Idle,
\* OpeningSource, DetectingRegions, Sampling, ExtractingPeaks, Done or leaves
\* that order for Failed; no step is taken from Done or Failed; Failed
\* carries an error (the 'no wells' message or the exception) and Done
\* carries the results of the three stages, each entered once, and no error
\* outcome
C12_StagesInOrder ==
    /\ [][\/ Stage' = Stage
          \/ <<Stage, Stage'>> \in StageOrder
          \/ Stage \notin TerminalStages /\ Stage' = "Failed"]_vars
    /\ [][Stage \notin TerminalStages]_vars
    /\ [](Stage = "Failed" => pc = "raised" \/ Printed(NO_WELLS))
    /\ [](Printed(NO_WELLS) => Stage = "Failed")
    /\ [](Stage = "Done" =>
            /\ calls = [find |-> 1, track |-> 1, peaks |-> 1]
            /\ well_rois # NoneList /\ well_rois # <<>>
            /\ peak_results = analyze_peaks(intensity_data, "average", SAMPLE_RATE))

\* a run over three frames with two wells that reached Done
C12_Witness ==
    /\ Stage = "Done"
    /\ ~faulted
    /\ Len(video) = 3 /\ Len(well_rois) = 2
    /\ Len(intensity_data) = 2
    /\ Len(intensity_data[1]) = 3
    /\ Len(peak_results) = 2

\* C13: at every point of a sampling pass there is one series per ROI, in
\* the order of the ROI list, all of the length of the frames sampled so far;
\* the k-th sample of the i-th series is the mean or the maximum of the i-th
\* rectangle in the k-th sampled frame, and 0 where the rectangle selects no
\* pixel
C13_SeriesAlignedWithRois ==
    (pass_opened /\ pc \in {"track_read", "track_returned", "raised"}) =>
        /\ Len(intensity_data) = Len(well_rois)
        /\ \A i, j \in 1..Len(intensity_data) :
              Len(intensity_data[i]) = Len(intensity_data[j])
        /\ \A i \in 1..Len(intensity_data) :
              /\ Len(intensity_data[i]) = Len(sampled_frames)
              /\ \A k \in 1..Len(sampled_frames) :
                    LET img == video[sampled_frames[k] + 1]
                        R == well_region(well_rois[i])
                    IN  intensity_data[i][k] =
                            IF R = {} THEN 0
                            ELSE IF pass_metric = "peak" THEN region_max(img, R)
                            ELSE region_mean(img, R)

\* two samples each for a lit well and for a rectangle beyond the frame
C13_Witness ==
    /\ pc = "track_returned" /\ pass_opened
    /\ Len(well_rois) = 2
    /\ well_region(well_rois[1]) # {} /\ well_region(well_rois[2]) = {}
    /\ Len(sampled_frames) = 2
    /\ intensity_data[1][1] > 0
    /\ intensity_data[2] = <<0, 0>>

\* the positions (0-based) of the non-empty series of a list
NonEmptyPositions(data) == {i - 1 : i \in {k \in 1..Len(data) : data[k] # <<>>}}

\* C14: the peak extractor returns for every list of series, empty ones
\* among them: its results carry, in rising order and once each, exactly
\* the positions of the non-empty series as well ids
C14_EmptySeriesSkipped ==
    /\ pc = "peaks_in" => ENABLED ApplyAnalyzePeaks
    /\ pc = "peaks_out" =>
          /\ Len(peak_results) = Cardinality(NonEmptyPositions(intensity_data))
          /\ {peak_results[j].well_id : j \in 1..Len(peak_results)}
                = NonEmptyPositions(intensity_data)
          /\ \A j \in 1..(Len(peak_results) - 1) :
                peak_results[j].well_id < peak_results[j + 1].well_id

\* an empty series ahead of a non-empty one
C14_Witness ==
    /\ pc = "peaks_out"
    /\ Len(intensity_data) = 2
    /\ intensity_data[1] = <<>> /\ intensity_data[2] # <<>>
    /\ Len(peak_results) = 1
    /\ peak_results[1].well_id = 1

\* the series set of a package holds, sample by sample, the given measure of
\* each rectangle of the package over the sampled frames
SeriesMeasure(package, series, mode) ==
    /\ Len(series) = Len(package.well_rois)
    /\ \A i \in 1..Len(series) :
          \A k \in 1..Len(series[i]) :
              LET img == video[(k - 1) * package.sample_rate + 1]
                  R == well_region(package.well_rois[i])
              IN  series[i][k] = IF R = {} THEN 0
                                 ELSE IF mode = "peak" THEN region_max(img, R)
                                 ELSE region_mean(img, R)

C20_ErrorPackageLeavesResultsAlone ==
    /\ [][Len(delivered') = Len(delivered) + 1 =>
             LET package == delivered'[Len(delivered')]
             IN  ("error" \in DOMAIN package /\ package.error \notin {None, ""}) =>
                     /\ shown_error' = package.error
                     /\ results_data' = results_data
                     /\ selected_tab' = selected_tab]_vars
    /\ [](\A i \in 1..Len(results_data) :
             "error" \in DOMAIN results_data[i] => results_data[i].error \in {None, ""})
    /\ [](selected_tab = "Results" =>
             /\ Len(results_data) = 1
             /\ Len(delivered) = 1
             /\ results_data[1] = delivered[1])

\* an invocation ended in an error while the results tab held the results of
\* an earlier analysis: the error is shown, the earlier results are still
\* held and the analysis tab is still the selected one
C20_Witness ==
    /\ pc = "shown"
    /\ Len(delivered) = 1
    /\ "error" \in DOMAIN delivered[1] /\ delivered[1].error \notin {None, ""}
    /\ shown_error = delivered[1].error
    /\ results_data = <<EarlierPackage>>
    /\ selected_tab = "Analysis"
    /\ ui_state = "normal"

\* a run in which the file opened for both passes and every read up to the
\* end of the stream succeeded
ReadCleanly(outcome) ==
    /\ ~outcome.faulted
    /\ \A k \in 1..Len(outcome.stdout) : outcome.stdout[k] \notin {CANNOT_OPEN, CANNOT_REOPEN}

track_alone(frames, rois, mode, stride) ==
    [i \in 1..Len(rois) |->
        [k \in 1..((Len(frames) + stride - 1) \div stride) |->
            roi_intensity(frames[(k - 1) * stride + 1], rois[i], mode)]]

\* C18: the calls share no list: what a call of track_well_intensities has
\* returned is, and stays, what the call returns for its arguments on its
\* own, whether the other worker has not called, has returned before, is
\* in the middle of its call or returns later
C18_CallsShareNothing ==
    \A w \in Workers :
        LET call == invocations[w]
        IN  call.pc = "track_returned" =>
                heap[call.intensity_data] =
                    IF call.opened
                    THEN track_alone(video, call.well_rois, call.metric_mode, call.sample_rate)
                    ELSE <<>>

\* one call has returned its series while the other, called with other
\* arguments, is in the middle of the file and has samples of its own
C18_Witness ==
    /\ Len(video) = 3
    /\ invocations["worker_a"].pc = "track_returned" /\ invocations["worker_a"].opened
    /\ invocations["worker_b"].pc = "track_read" /\ invocations["worker_b"].cap_pos = 2
    /\ invocations["worker_a"].well_rois # invocations["worker_b"].well_rois
    /\ invocations["worker_a"].metric_mode # invocations["worker_b"].metric_mode
    /\ Len(heap["worker_a"]) = 2 /\ Len(heap["worker_a"][1]) = 3
    /\ Len(heap["worker_b"]) = 1 /\ Len(heap["worker_b"][1]) = 2
    /\ heap["worker_a"][1] # heap["worker_b"][1]

\* C19 as stated: on the rise-then-fall video the extractor reports frame 5
\* with stride 1 and, with a larger stride, the last sampled frame that is
\* not after frame 5 (frame 4 with stride 2)
C19_ReportsSampleAtOrBeforePeak ==
    pc = "peaks_returned" =>
        /\ Len(peak_results) = 1
        /\ peak_results[1].frame = (5 \div sample_rate) * sample_rate

\* C19 amended: on the rise-then-fall video the extractor reports the first
\* sampled frame whose sample is the largest of the samples: frame 5 with
\* stride 1, and with stride 2 frame 4 when the well is at least as bright
\* at frame 4 as at frame 6, frame 6 when it is brighter at frame 6
C19_ReportsLargestSample ==
    pc = "peaks_returned" =>
        /\ Len(peak_results) = 1
        /\ LET reported == peak_results[1].frame
               Sampled == {f \in 0..9 : f % sample_rate = 0}
               level(f) == video[f + 1][SiteA]
           IN  /\ reported \in Sampled
               /\ \A f \in Sampled :
                     /\ level(f) <= level(reported)
                     /\ f < reported => level(f) < level(reported)
               /\ sample_rate = 1 => reported = 5
               /\ sample_rate = 2 => reported = IF level(4) >= level(6) THEN 4 ELSE 6

\* with stride 2 the well is brighter at frame 6 than at frame 4 and the
\* extractor has reported frame 6, past the peak at frame 5
C19_Witness ==
    /\ pc = "peaks_returned"
    /\ sample_rate = 2
    /\ Len(intensity_data) = 1 /\ Len(intensity_data[1]) = 5
    /\ video[7][SiteA] > video[5][SiteA]
    /\ Len(peak_results) = 1
    /\ peak_results[1].frame = 6

\* C21 as stated: while an analysis that was started has not had its
\* package handed over, the results tab holds no package and its controls
\* are disabled; and whenever the results tab comes to hold no package, its
\* controls are disabled
C21_ResultsDiscardedOnNewAnalysis ==
    /\ started > Len(delivered) => (results_data = <<>> /\ controls_state = "disabled")
    /\ results_data = <<>> => controls_state = "disabled"

\* C22 as stated: the worker threads that run and the packages not yet
\* taken from the queue are never more than one together
C22_AtMostOneInFlight == Len(workers_running) + Len(results_queue) <= 1

\* --------------------------------------- capture_tab.py, interval recording
\* str.lower() on the actions the phase dialog offers
lower(action) == IF action = "Record" THEN "record" ELSE IF action = "Wait" THEN "wait" ELSE action

\* CameraHandler.get_fps(), called at capture_tab.py line 474
get_fps == 30

\* lines 470-475: a VideoRecorder for a new phase
new_recorder == [id |-> recorders_made + 1, fps |-> get_fps]

\* the callbacks queued with self.after(0, _update_ui) that the main loop
\* has still to run: each callback of the scheduler queues one
ui_queue == SubSeq(callback_log, ui_done + 1, Len(callback_log))

\* line 469 without the stop of the recorder of the phase before
stop_recorder_never(held, on) == on

\* lines 462, 469: if self.recorder and self.recorder.is_recording():
\* self.recorder.stop()
stop_recorder(held, on) == on \ {held.id}

\* lines 462, 469: ...; self.recorder = None
recorder_after_stop == IF recorder.id \in recording THEN NoRecorder ELSE recorder

\* lines 462-465: the end of stop_interval_recording_logic
stop_logic_end ==
    /\ recording' = stop_recorder(recorder, recording)
    /\ recorder' = recorder_after_stop
    /\ is_interval_recording' = FALSE
    /\ ui_pc' = "idle"
    /\ UNCHANGED recorders_made

\* lines 460-465: stop_interval_recording_logic: with a scheduler, stop() is
\* called and the main loop waits in join(); without, the rest is done at
\* once
stop_interval_recording_logic ==
    IF is_interval_recording
    THEN /\ stop_event' = TRUE
         /\ log_at_stop' = IF stop_event THEN log_at_stop ELSE Len(callback_log)
         /\ ui_pc' = "join"
         /\ UNCHANGED <<is_interval_recording, recorder, recorders_made, recording>>
    ELSE /\ stop_logic_end
         /\ UNCHANGED <<stop_event, log_at_stop>>

\* lines 448-449: the user presses Stop Interval Recording
toggle_interval_recording ==
    /\ ui_pc = "idle"
    /\ is_interval_recording
    /\ stop_interval_recording_logic
    /\ UNCHANGED <<schedule, sched_pc, cycle_num, phase_index, tick_t, callback_log, clock,
                   sched_error, callback_raised, ui_done,
                   pc, video, contour_area, is_image_mode, earlier_runs, invocations, heap,
                   tabVars, camVars, calVars, capVars, parVars, findVars, trackVars,
                   peak_results, calls, outVars>>

\* line 461: scheduler.join() returns when run() has ended
join_scheduler ==
    /\ ui_pc = "join"
    /\ sched_pc = "done"
    /\ stop_logic_end
    /\ UNCHANGED <<schedVars, ui_done,
                   pc, video, contour_area, is_image_mode, earlier_runs, invocations, heap,
                   tabVars, camVars, calVars, capVars, parVars, findVars, trackVars,
                   peak_results, calls, outVars>>

\* lines 467-497: the main loop runs the next queued _update_ui. For
\* on_phase_change: the recorder that is recording is stopped and, for a
\* record phase, a new one is made and started, which may fail; for on_tick:
\* the time label; for on_complete and on_error: a message box, then
\* stop_interval_recording_logic
run_update_ui ==
    /\ ui_pc = "idle"
    /\ ui_queue # <<>>
    /\ ui_done' = ui_done + 1
    /\ LET call == ui_queue[1]
       IN  CASE call.callback = "on_phase_change" ->
                  /\ IF lower(call.args.action) = "record"
                     THEN /\ recorder' = new_recorder
                          /\ recorders_made' = recorders_made + 1
                          /\ \/ recording' = stop_recorder(recorder, recording)
                                               \cup {new_recorder.id}
                             \/ recording' = stop_recorder(recorder, recording)
                     ELSE /\ recording' = stop_recorder(recorder, recording)
                          /\ recorder' = recorder_after_stop
                          /\ UNCHANGED recorders_made
                  /\ UNCHANGED <<is_interval_recording, ui_pc, stop_event, log_at_stop>>
             [] call.callback = "on_tick" ->
                  UNCHANGED <<is_interval_recording, recorder, recorders_made, recording, ui_pc,
                              stop_event, log_at_stop>>
             [] OTHER -> stop_interval_recording_logic
    /\ UNCHANGED <<schedule, sched_pc, cycle_num, phase_index, tick_t, callback_log, clock,
                   sched_error, callback_raised,
                   pc, video, contour_area, is_image_mode, earlier_runs, invocations, heap,
                   tabVars, camVars, calVars, capVars, parVars, findVars, trackVars,
                   peak_results, calls, outVars>>

\* lines 146-151, 453: the configurations of the dialog that have phases,
\* here with phases of at most one second
IntervalSchedules ==
    {c \in Schedules : /\ DOMAIN c = {"phases", "repeat_count"}
                        /\ c.phases # <<>>
                        /\ \A k \in 1..Len(c.phases) : c.phases[k].duration <= 1}

\* lines 452-458: start_interval_recording_logic has started a scheduler on
\* a configuration of the dialog that has phases
InitInterval ==
    /\ pc = "interval"
    /\ SourceAtRestButScheduler /\ CameraAtRest /\ CalibrationAtRest
    /\ schedule \in IntervalSchedules
    /\ sched_pc = "run" /\ cycle_num = 0 /\ phase_index = 0 /\ tick_t = 0
    /\ stop_event = FALSE /\ callback_log = <<>> /\ clock = 0
    /\ sched_error = None /\ callback_raised = FALSE /\ log_at_stop = 0
    /\ is_interval_recording = TRUE /\ recorder = NoRecorder /\ recorders_made = 0
    /\ recording = {} /\ ui_done = 0 /\ ui_pc = "idle"
    /\ threshold_value = 0 /\ min_area = 0
    /\ metric_mode = "average" /\ sample_rate = 1
    /\ FindAtRest /\ TrackAtRest
    /\ peak_results = <<>>
    /\ calls = NoCalls /\ OutAtRest

NextInterval ==
    \/ RunStep
    \/ CallbackRaises
    \/ toggle_interval_recording
    \/ join_scheduler
    \/ run_update_ui

SpecInterval == InitInterval /\ [][NextInterval]_vars

\* ------------------------------------------------------ camera_handler.py
\* everything but the camera
nonCamVars ==
    <<pc, video, contour_area, is_image_mode, earlier_runs, invocations, heap, tabVars, schedVars,
      intervalVars, calVars, capVars, parVars, findVars, trackVars, peak_results, calls, outVars>>

\* a frame as picamera2 or cv2 delivers it
FRAME == "frame"

\* thread i has returned from _capture_loop
thread_ended(i) == capture_threads[i] \in {"failed", "exited"}

\* the capture threads that have not ended
threads_alive == {i \in DOMAIN capture_threads : ~thread_ended(i)}

\* lines 86-95: start_stream; with the signal set it returns at once
start_stream ==
    /\ stop_pc = "idle"
    /\ start_calls < MaxStarts
    /\ start_calls' = start_calls + 1
    /\ stopped_since' = FALSE
    /\ IF is_running_signal
       THEN UNCHANGED <<camera_status, is_running_signal, camera_thread, capture_threads,
                        camera_frame>>
       ELSE /\ is_running_signal' = TRUE
            /\ camera_status' = STATUS_INITIALIZING
            /\ camera_frame' = None
            /\ capture_threads' = Append(capture_threads, "init")
            /\ camera_thread' = Len(capture_threads) + 1
    /\ UNCHANGED <<camera_cap, devices_open, read_raised, stop_pc, nonCamVars>>

\* the except clause leaves the handle of the failed start-up open
close_after_failure_never(handle, open) == open

\* lines 132-136: the handle the handler holds is closed
close_after_failure(handle, open) == open \ {handle}

\* lines 102-126: thread i opens the camera. It opens and the status becomes
\* RUNNING; or the handle is made and opened and a later call raises
\* (picamera2: configure, start); or no device is opened, with the handle
\* kept (cv2: isOpened is False) or not (picamera2: the constructor raises)
capture_loop_init(i) ==
    /\ i \in DOMAIN capture_threads
    /\ capture_threads[i] = "init"
    /\ \/ /\ camera_cap' = i
          /\ devices_open' = devices_open \cup {i}
          /\ camera_status' = STATUS_RUNNING
          /\ capture_threads' = [capture_threads EXCEPT ![i] = "while"]
       \/ /\ camera_cap' = i
          /\ devices_open' = devices_open \cup {i}
          /\ capture_threads' = [capture_threads EXCEPT ![i] = "except"]
          /\ UNCHANGED camera_status
       \/ /\ camera_cap' \in {i, camera_cap}
          /\ capture_threads' = [capture_threads EXCEPT ![i] = "except"]
          /\ UNCHANGED <<devices_open, camera_status>>
    /\ UNCHANGED <<is_running_signal, camera_thread, camera_frame, read_raised, stop_pc,
                   stopped_since, start_calls, nonCamVars>>

\* lines 128-138: the start-up has raised: the status becomes ERROR, an open
\* handle the handler holds is closed and dropped, the signal is cleared and
\* the thread ends
capture_loop_except(i) ==
    /\ i \in DOMAIN capture_threads
    /\ capture_threads[i] = "except"
    /\ camera_status' = STATUS_ERROR
    /\ IF camera_cap \in devices_open
       THEN /\ devices_open' = close_after_failure(camera_cap, devices_open)
            /\ camera_cap' = 0
       ELSE UNCHANGED <<devices_open, camera_cap>>
    /\ is_running_signal' = FALSE
    /\ capture_threads' = [capture_threads EXCEPT ![i] = "failed"]
    /\ UNCHANGED <<camera_thread, camera_frame, read_raised, stop_pc, stopped_since,
                   start_calls, nonCamVars>>

\* line 141: the test of the capture loop
capture_loop_test(i) ==
    /\ i \in DOMAIN capture_threads
    /\ capture_threads[i] = "while"
    /\ capture_threads' = [capture_threads EXCEPT ![i] =
                              IF is_running_signal THEN "read" ELSE "cleanup"]
    /\ UNCHANGED <<camera_status, is_running_signal, camera_thread, camera_cap, devices_open,
                   camera_frame, read_raised, stop_pc, stopped_since, start_calls, nonCamVars>>

\* lines 142-160: one pass of the loop: a frame is read and stored, or no
\* frame comes (cv2: ret is False), or the read raises (as it does when
\* the handle is None) and the signal is cleared
capture_loop_read(i) ==
    /\ i \in DOMAIN capture_threads
    /\ capture_threads[i] = "read"
    /\ \/ /\ camera_cap # 0
          /\ camera_frame' \in {FRAME, camera_frame}
          /\ UNCHANGED <<is_running_signal, read_raised>>
       \/ /\ is_running_signal' = FALSE
          /\ read_raised' = read_raised \cup {i}
          /\ UNCHANGED camera_frame
    /\ capture_threads' = [capture_threads EXCEPT ![i] = "while"]
    /\ UNCHANGED <<camera_status, camera_thread, camera_cap, devices_open, stop_pc,
                   stopped_since, start_calls, nonCamVars>>

\* lines 163-177: the handle the handler holds is released and dropped, the
\* status becomes STOPPED, the frame None, and the thread ends
capture_loop_cleanup(i) ==
    /\ i \in DOMAIN capture_threads
    /\ capture_threads[i] = "cleanup"
    /\ IF camera_cap # 0
       THEN devices_open' = devices_open \ {camera_cap} /\ camera_cap' = 0
       ELSE UNCHANGED <<devices_open, camera_cap>>
    /\ camera_status' = STATUS_STOPPED
    /\ camera_frame' = None
    /\ capture_threads' = [capture_threads EXCEPT ![i] = "exited"]
    /\ UNCHANGED <<is_running_signal, camera_thread, read_raised, stop_pc, stopped_since,
                   start_calls, nonCamVars>>

\* lines 185-187: the end of stop_stream
stop_stream_return ==
    /\ camera_thread' = 0
    /\ camera_status' = STATUS_STOPPED
    /\ stop_pc' = "idle"
    /\ stopped_since' = TRUE

\* lines 180-184: stop_stream clears the signal and, if there is a thread,
\* waits for it
stop_stream ==
    /\ stop_pc = "idle"
    /\ is_running_signal' = FALSE
    /\ IF camera_thread # 0
       THEN stop_pc' = "join" /\ UNCHANGED <<camera_status, camera_thread, stopped_since>>
       ELSE stop_stream_return
    /\ UNCHANGED <<capture_threads, camera_cap, devices_open, camera_frame, read_raised,
                   start_calls, nonCamVars>>

\* line 184: join returns because the thread has ended
join_returns ==
    /\ stop_pc = "join"
    /\ thread_ended(camera_thread)
    /\ stop_stream_return
    /\ UNCHANGED <<is_running_signal, capture_threads, camera_cap, devices_open, camera_frame,
                   read_raised, start_calls, nonCamVars>>

\* line 184: join(timeout=2) returns after two seconds with the thread still
\* opening the camera, reading a frame or cleaning up
join_times_out ==
    /\ stop_pc = "join"
    /\ ~thread_ended(camera_thread)
    /\ stop_stream_return
    /\ UNCHANGED <<is_running_signal, capture_threads, camera_cap, devices_open, camera_frame,
                   read_raised, start_calls, nonCamVars>>

\* lines 29-36: a handler is made
InitCamera ==
    /\ pc = "camera"
    /\ SourceAtRestButScheduler /\ SchedulerAtRest /\ CameraAtRest /\ IntervalAtRest /\ CalibrationAtRest
    /\ threshold_value = 0 /\ min_area = 0
    /\ metric_mode = "average" /\ sample_rate = 1
    /\ FindAtRest /\ TrackAtRest
    /\ peak_results = <<>>
    /\ calls = NoCalls /\ OutAtRest

NextCamera ==
    \/ start_stream
    \/ stop_stream
    \/ join_returns
    \/ join_times_out
    \/ \E i \in 1..MaxStarts : capture_loop_init(i)
    \/ \E i \in 1..MaxStarts : capture_loop_except(i)
    \/ \E i \in 1..MaxStarts : capture_loop_test(i)
    \/ \E i \in 1..MaxStarts : capture_loop_read(i)
    \/ \E i \in 1..MaxStarts : capture_loop_cleanup(i)

SpecCamera == InitCamera /\ [][NextCamera]_vars

\* how many times a callback has been called
count_calls(name) == Cardinality({i \in DOMAIN callback_log : callback_log[i].callback = name})

\* the seconds of all the phases of a schedule together
RECURSIVE sum_durations(_)
sum_durations(phases) ==
    IF phases = <<>> THEN 0 ELSE phases[1].duration + sum_durations(Tail(phases))

\* the run was not asked to stop and no callback raised
RanUndisturbed == ~stop_event /\ ~callback_raised

\* C23: a schedule with phases, without infinite_repeat and with repeat_count
\* r, run without stop() and without a callback raising, goes through
\* exactly r + 1 cycles of all its phases and then calls on_complete once,
\* and it does get there; with infinite_repeat set the run never calls
\* on_complete and, left undisturbed, never leaves the loop and begins cycle
\* after cycle
C23_RepeatsThenCompletes ==
    /\ []((schedule.phases # <<>> /\ RanUndisturbed /\ ~is_infinite) =>
             /\ cycle_num <= schedule.repeat_count + 1
             /\ count_calls("on_complete") = (IF sched_pc = "done" THEN 1 ELSE 0)
             /\ sched_pc \in {"if_not_stopped", "on_complete", "done"} =>
                    /\ cycle_num = schedule.repeat_count + 1
                    /\ count_calls("on_phase_change")
                           = (schedule.repeat_count + 1) * Len(schedule.phases)
                    /\ count_calls("on_tick")
                           = (schedule.repeat_count + 1) * sum_durations(schedule.phases))
    /\ [](is_infinite =>
             /\ count_calls("on_complete") = 0
             /\ (schedule.phases # <<>> /\ RanUndisturbed) =>
                    sched_pc \notin {"if_not_stopped", "on_complete", "done"})
    /\ (schedule.phases # <<>> /\ ~is_infinite)
           ~> (~RanUndisturbed \/ (sched_pc = "done" /\ count_calls("on_complete") = 1))
    /\ (schedule.phases # <<>> /\ is_infinite)
           ~> (~RanUndisturbed \/ cycle_num = MaxCycles)

\* a schedule of two phases with repeat_count 1 has run undisturbed through
\* its two cycles and called on_complete
C23_Witness ==
    /\ sched_pc = "done" /\ RanUndisturbed
    /\ ~is_infinite /\ schedule.repeat_count = 1 /\ Len(schedule.phases) = 2
    /\ cycle_num = 2
    /\ callback_log[Len(callback_log)].callback = "on_complete"

\* capture_tab.py lines 146-151: the dialog saves the keys "phases" and
\* "repeat_count" and no other
saved_from_dialog(config) == DOMAIN config = {"phases", "repeat_count"}

\* C24: a schedule saved from the dialog with Repeat Count 0 and at least one
\* phase repeats until it is stopped: its run never calls on_complete and
\* never leaves the loop of its own accord
C24_ZeroRepeatsForever ==
    (saved_from_dialog(schedule) /\ schedule.repeat_count = 0 /\ schedule.phases # <<>>) =>
        /\ count_calls("on_complete") = 0
        /\ RanUndisturbed => sched_pc \notin {"if_not_stopped", "on_complete", "done"}

\* the calls one phase in cycle c stands for: on_phase_change, then on_tick
\* with duration, duration - 1, ..., 1
phase_calls(phase, c, r) ==
    <<[callback |-> "on_phase_change",
       args |-> [phase_name |-> phase.name, duration |-> phase.duration, cycle_num |-> c,
                 repeat_count |-> r, action |-> phase.action]]>>
    \o [k \in 1..phase.duration |->
           [callback |-> "on_tick", args |-> [t |-> phase.duration - k + 1]]]

\* the calls of the phases of a list, in list order, in cycle c
RECURSIVE cycle_calls(_, _, _)
cycle_calls(phases, c, r) ==
    IF phases = <<>> THEN <<>>
    ELSE phase_calls(phases[1], c, r) \o cycle_calls(Tail(phases), c, r)

\* the calls of cycles c, c + 1, ..., last
RECURSIVE cycles_calls(_, _, _, _)
cycles_calls(phases, c, last, r) ==
    IF c > last THEN <<>>
    ELSE cycle_calls(phases, c, r) \o cycles_calls(phases, c + 1, last, r)

\* the calls of on_phase_change and on_tick made so far, in the order made
progress_calls ==
    SelectSeq(callback_log, LAMBDA call : call.callback \in {"on_phase_change", "on_tick"})

\* how many of the first n calls are calls of on_tick
ticks_among(calls_made, n) ==
    Cardinality({i \in 1..n : calls_made[i].callback = "on_tick"})

\* C25: the calls of on_phase_change and on_tick a run makes are, in order,
\* the first so many of: for cycle 1, 2, ... in turn, for each phase in list
\* order, on_phase_change with that cycle number and then on_tick with the
\* phase's duration d, d - 1, ..., 1; and every on_tick is followed by one
\* second of sleep, so that each call is made as many seconds after the
\* start as there were on_tick calls before it
C25_CallbacksInOrder ==
    LET made == progress_calls
        last == IF is_infinite THEN MaxCycles ELSE schedule.repeat_count + 1
        due  == cycles_calls(schedule.phases, 1, last, schedule.repeat_count)
    IN  /\ Len(made) <= Len(due)
        /\ \A i \in 1..Len(made) :
               /\ made[i].callback = due[i].callback
               /\ made[i].args = due[i].args
               /\ made[i].at = ticks_among(made, i - 1)

\* a schedule of a 2-second and a 1-second phase with repeat_count 1 has run
\* to its end: two cycles of two phase changes and three ticks, and
\* on_complete
C25_Witness ==
    /\ sched_pc = "done" /\ RanUndisturbed /\ ~is_infinite
    /\ Len(schedule.phases) = 2 /\ schedule.repeat_count = 1
    /\ schedule.phases[1].duration = 2 /\ schedule.phases[2].duration = 1
    /\ Len(progress_calls) = 10
    /\ progress_calls[6].args.cycle_num = 2
    /\ clock = 6

\* C26: a run calls at most one of on_complete and on_error, and that one at
\* most once
C26_OneTerminalCallback == count_calls("on_complete") + count_calls("on_error") <= 1

\* the calls made since stop() was called
calls_since_stop == SubSeq(callback_log, log_at_stop + 1, Len(callback_log))

\* C27: once stop() has been called on a running scheduler, the thread calls
\* on_tick at most once more, calls on_phase_change for no further phase and
\* never calls on_complete
C27_NothingStartsAfterStop ==
    stop_event =>
        /\ \A i \in 1..Len(calls_since_stop) :
               calls_since_stop[i].callback \notin {"on_phase_change", "on_complete"}
        /\ Cardinality({i \in 1..Len(calls_since_stop) :
                           calls_since_stop[i].callback = "on_tick"}) <= 1

\* C28: a run on a schedule whose phase list is empty makes no call but one
\* call of on_error, with the message "Scheduler error: Schedule contains
\* no phases.", and has made it when it ends
C28_EmptyScheduleReportsError ==
    schedule.phases = <<>> =>
        LET report == [callback |-> "on_error",
                       args |-> [message |-> <<"Scheduler error: ",
                                               "Schedule contains no phases.">>],
                       at |-> 0]
        IN  /\ callback_log \in {<<>>, <<report>>}
            /\ sched_pc = "done" => callback_log = <<report>>

\* a run on an empty schedule has ended with its one call of on_error
C28_Witness ==
    /\ schedule.phases = <<>>
    /\ sched_pc = "done"
    /\ Len(callback_log) = 1 /\ callback_log[1].callback = "on_error"

\* C29: from the return of stop_stream to the next call of start_stream the
\* status is STOPPED, no capture thread is alive and no capture is open
C29_StoppedAfterStopStream ==
    stopped_since =>
        /\ camera_status = STATUS_STOPPED
        /\ threads_alive = {}
        /\ devices_open = {}

\* C30: at most one capture thread is alive at any time, whatever calls of
\* start_stream and stop_stream are made
C30_AtMostOneCaptureThread == Cardinality(threads_alive) <= 1

\* C31: when the start-up of the camera has failed in a capture thread, the
\* handle that thread opened is closed by the time the thread ends
C31_FailedStartupClosesHandle ==
    \A i \in DOMAIN capture_threads :
        capture_threads[i] = "failed" => i \notin devices_open

\* C32: a capture thread in which the read of a frame has raised reads no
\* further frame, and when it has ended the camera it opened is released
C32_RaisedReadStopsTheLoop ==
    \A i \in read_raised :
        /\ capture_threads[i] # "read"
        /\ capture_threads[i] = "exited" => i \notin devices_open

\* C33: whenever the status is STOPPED, INITIALIZING or ERROR the stored
\* frame is None, so that get_frame returns a frame only while the status
\* is RUNNING
C33_FrameOnlyWhileRunning ==
    camera_status \in {STATUS_STOPPED, STATUS_INITIALIZING, STATUS_ERROR} =>
        camera_frame = None

\* the on_phase_change callbacks the main loop has run
phase_changes_shown == {i \in 1..ui_done : callback_log[i].callback = "on_phase_change"}

\* the action of the phase the capture tab shows: that of the last
\* on_phase_change the main loop has run
shown_phase_action ==
    IF phase_changes_shown = {} THEN "none"
    ELSE LET last == CHOOSE i \in phase_changes_shown : \A j \in phase_changes_shown : j <= i
         IN  lower(callback_log[last].args.action)

C35_BackgroundLevelInRange ==
    /\ \A i \in 1..Len(workers_running) : workers_running[i].background_level \in 0..255
    /\ background_level \in 0..255
====
